---- MODULE Spec2Model ----
(***************************************************************************)
(* Usage-tracking pipeline: the Redis work queue "usage_events", the event *)
(* processor replicas (services/event_processor/main.py), the usage_events *)
(* table behind UsageEventRepository, and the ingest gateway with its      *)
(* middleware chain (services/api_gateway).                                *)
(***************************************************************************)
EXTENDS Integers, Sequences, FiniteSets, TLC

(***************************************************************************)
(* Bounds of the model.                                                    *)
(***************************************************************************)
MaxSubmissions == 2
MaxRetryCount == 3

\* EventProcessor.__init__: self.batch_size = 10
batch_size == 10

\* "if retry_count < 3:  # Max retries" in _handle_failed_events
MaxRetries == 3

EventIds == {"e1", "e2"}
Rates == {2}
Replicas == {"p1", "p2"}
\* What a producer can put on the queue:
\*   good           a validated llm_service event
\*   bogus_type     a custom event whose service_type is no ServiceType member
\*   missing_field  a dict that lacks one of the five required fields
\*   bad_uuid       a custom event whose event_id string is no UUID
\*   foreign        a dict without event_id that already carries retry_count = 3
Kinds == {"good", "bogus_type", "missing_field", "bad_uuid", "foreign"}

VARIABLES
    usage_events,        \* Redis list "usage_events": index 1 is the head (LPUSH side)
    dead_letter_events,  \* Redis list "dead_letter_events"
    db_usage_events,     \* rows of the usage_events table, in insertion order
    billing_rule,        \* the billing rule row for (llm_service, provider)
    redis_up,            \* Redis reachable
    store_up,            \* database reachable
    proc,                \* per replica: position in the loop and its local lists
    submitted,           \* number of payloads pushed by producers so far
    upsert_log           \* history: per event_id, the committed upserts in order
                         \* (the total_cost written and the replica that wrote it)

\* The ingest gateway (services/api_gateway).
VARIABLES
    started,             \* startup_event has run
    redis_client,        \* main.redis_client is not None
    rl_client,           \* RateLimitMiddleware.redis_client is not None
    rl_count,            \* per identity: value of its rate_limit:* key (0: no key)
    rl_ttl,              \* per identity: TTL of the key (-2: no key, -1: no expiry)
    slots,               \* per connection: the request being served and its response
    background_tasks,    \* BackgroundTasks scheduled by responses already sent
    received,            \* number of requests received so far
    accepted_now,        \* history: per identity, non-bypassed requests passed to the
                         \* route handler since time last advanced
    accepted_events,     \* history: event_ids reported accepted on the fallback path
    fallback_failed      \* history: a fallback write met an unreachable store

gateway_vars == <<started, redis_client, rl_client, rl_count, rl_ttl, slots,
                  background_tasks, received, accepted_now, accepted_events,
                  fallback_failed>>

processor_vars == <<dead_letter_events, billing_rule, proc, submitted, upsert_log>>

\* Single calls of the pure functions and of the read handlers, the
\* processors' running flags and the tracker of the client SDK.
VARIABLES
    validator_call,      \* validate_event_data: the event posted and the outcome
    pricing_call,        \* _calculate_billing: rule rows, event, clock and outcome
    tier_call,           \* _apply_tiered_rates: unit_count, tiers and the cost
    cost_call,           \* calculate_event_cost: event, rule and the billing_info
    query_call,          \* query_usage: the table, the filters and the response
    trend_call,          \* get_trend_analysis: the series and the trend
    running,             \* EventProcessor.running: FALSE once stop() was called
    boundaries_call,     \* _get_period_boundaries: the window and the periods
    tracker,             \* client SDK: a UsageTracker, its callers, what it sent
    isolation_call       \* two histories that differ in another tenant's events

call_vars == <<validator_call, pricing_call, tier_call, cost_call,
              query_call, trend_call, running, boundaries_call, tracker,
              isolation_call>>

\* The aggregation service (services/aggregation_service).
VARIABLES
    clock,               \* datetime.utcnow() of the aggregator, in half hours
    db_usage_aggregates, \* committed rows of the usage_aggregates table
    agg_session,         \* history: per period type, the table as the session of
                         \* the last pass saw it when the pass ended
    agg_error,           \* history: per period type, the exception that ended
                         \* the last pass ("none": it committed)
    db_billing_summaries \* committed rows of the billing_summaries table

aggregation_vars == <<clock, db_usage_aggregates, agg_session, agg_error,
                      db_billing_summaries>>

vars == <<usage_events, dead_letter_events, db_usage_events, billing_rule,
          redis_up, store_up, proc, submitted, upsert_log, gateway_vars,
          call_vars, aggregation_vars>>

\* No call in progress.
NoCall == [done |-> TRUE]

\* The aggregation service has not run.
AggregationPeriods == {"hour", "day"}

NoAggregation ==
    /\ clock = 0
    /\ db_usage_aggregates = <<>>
    /\ agg_session = [p \in AggregationPeriods |-> <<>>]
    /\ agg_error = [p \in AggregationPeriods |-> "none"]
    /\ db_billing_summaries = <<>>

NoCalls ==
    /\ validator_call = NoCall
    /\ pricing_call = NoCall
    /\ tier_call = NoCall
    /\ cost_call = NoCall
    /\ query_call = NoCall
    /\ trend_call = NoCall
    /\ running = [r \in Replicas |-> TRUE]
    /\ boundaries_call = NoCall
    /\ tracker = NoCall
    /\ isolation_call = NoCall

(***************************************************************************)
(* Optional dictionary keys: <<>> is "key absent", <<v>> is "key -> v".    *)
(***************************************************************************)
Get(opt, default) == IF opt = <<>> THEN default ELSE opt[1]

InputTokens(id) == IF id = "e1" THEN 1 ELSE 2
OutputTokens(id) == 1

\* json.loads of "{}", and what _deserialize_event returns on any error.
EmptyDict ==
    [event_id      |-> "none",
     uuid_ok       |-> TRUE,
     service_type  |-> "absent",
     required_ok   |-> FALSE,
     input_tokens  |-> 0,
     output_tokens |-> 0,
     total_tokens  |-> <<>>,
     status        |-> "absent",
     error_message |-> "absent",
     retry_count   |-> <<>>,
     billing_info  |-> <<>>,
     total_cost    |-> <<>>,
     processed_at  |-> "absent",
     dead_letter_at |-> "absent"]

\* The dict a producer serializes onto the queue.
FreshEvent(id, kind) ==
    IF kind = "foreign"
    THEN [EmptyDict EXCEPT !.retry_count = <<MaxRetries>>]
    ELSE [EmptyDict EXCEPT
             !.event_id      = id,
             !.uuid_ok       = (kind # "bad_uuid"),
             !.service_type  = IF kind = "good" THEN "llm_service" ELSE "bogus",
             !.required_ok   = (kind # "missing_field"),
             !.input_tokens  = InputTokens(id),
             !.output_tokens = OutputTokens(id)]

IdleProc == [pc |-> "idle", events |-> <<>>, successful_events |-> <<>>,
             failed_events |-> <<>>]

\* The queue, the table and the processors before anything was submitted.
ProcessorInit ==
    /\ usage_events = <<>>
    /\ dead_letter_events = <<>>
    /\ db_usage_events = <<>>
    /\ proc = [r \in Replicas |-> IdleProc]
    /\ submitted = 0
    /\ upsert_log = [e \in EventIds |-> <<>>]

(***************************************************************************)
(* Redis list operations.                                                  *)
(***************************************************************************)
\* LPUSH replaced by a push at the end the processor pops from.
LPush_at_pop_end(list, x) == Append(list, x)

\* LPUSH: insert at the head of the list.
LPush(list, x) == <<x>> \o list

\* LPUSH of several values one after the other.
RECURSIVE LPushAll(_, _)
LPushAll(list, xs) ==
    IF xs = <<>> THEN list ELSE LPushAll(LPush(list, Head(xs)), Tail(xs))

\* RPOP / BRPOP: the value at the tail, and the list without it.
RPopValue(list) == list[Len(list)]
RPopRest(list) == SubSeq(list, 1, Len(list) - 1)

(***************************************************************************)
(* JSON round trip of an event through the queue.                          *)
(***************************************************************************)
\* _json_serializer: a datetime becomes its ISO string (and _deserialize_event
\* converts back only timestamp, created_at and updated_at).
_json_serializer(obj) == IF obj = "datetime" THEN "str" ELSE obj

\* json.dumps(event, default=self._json_serializer): every key is kept.
Serialize(event) ==
    [event EXCEPT !.processed_at   = _json_serializer(@),
                  !.dead_letter_at = _json_serializer(@)]

\* _deserialize_event: uuid.UUID(event_dict['event_id']) raises on a string
\* that is no UUID, and the handler then returns {}.
_deserialize_event(event_data) ==
    IF event_data.uuid_ok THEN event_data ELSE EmptyDict

(***************************************************************************)
(* Pricing (EventProcessor._calculate_billing over calculate_event_cost).  *)
(***************************************************************************)
\* The billing_info returned when no rule is found or the lookup raises.
DefaultBillingInfo ==
    [total_cost |-> 0, billing_unit |-> "unknown", rate_per_unit |-> 0]

\* calculate_event_cost for a tokens rule with calculation_method multiply.
calculate_event_cost(event, rule) ==
    [total_cost    |-> Get(event.total_tokens, 0) * rule.rate_per_unit,
     billing_unit  |-> "tokens",
     rate_per_unit |-> rule.rate_per_unit]

\* get_active_billing_rule is queried inside a try block: a database error
\* is logged and the default billing_info returned.
_calculate_billing(event, db_ok, rule) ==
    IF event.service_type = "absent" THEN DefaultBillingInfo
    ELSE IF db_ok /\ rule.is_active THEN calculate_event_cost(event, rule)
    ELSE DefaultBillingInfo

(***************************************************************************)
(* EventProcessor._process_single_event                                    *)
(***************************************************************************)
\* Variant: the except branch leaves retry_count alone.
MarkFailed_no_increment(event, message) ==
    [event EXCEPT !.status        = "failed",
                  !.error_message = message]

\* The except branch: the event dict is marked failed in place.
MarkFailed(event, message) ==
    [event EXCEPT !.status        = "failed",
                  !.error_message = message,
                  !.retry_count   = <<Get(@, 0) + 1>>]

\* _enrich_event up to the derived metrics (no ServiceRegistry row carries
\* enrichment rules): processed_at is stamped first, total_tokens is set for
\* llm_service.
_enrich_event(event) ==
    [event EXCEPT !.processed_at = "datetime",
                  !.total_tokens =
                      IF event.service_type = "llm_service"
                      THEN <<event.input_tokens + event.output_tokens>>
                      ELSE @]

\* Returns [none |-> TRUE] for "return None", else the returned dict.
_process_single_event(event, db_ok, billing_db_ok, rule) ==
    IF event.event_id = "none"
    THEN [none |-> TRUE, event |-> event]
    ELSE IF ~event.required_ok
    THEN [none |-> FALSE, event |-> MarkFailed(event, "Missing required field")]
    ELSE IF event.service_type # "llm_service"
    THEN \* ServiceType(service_type) raises ValueError after processed_at is set
         [none |-> FALSE,
          event |-> MarkFailed([event EXCEPT !.processed_at = "datetime"],
                               "not a valid ServiceType")]
    ELSE IF ~db_ok
    THEN \* get_service_config raises inside _enrich_event
         [none |-> FALSE,
          event |-> MarkFailed([event EXCEPT !.processed_at = "datetime"],
                               "database unavailable")]
    ELSE LET enriched == _enrich_event(event)
             billing  == _calculate_billing(enriched, billing_db_ok, rule)
         IN  [none |-> FALSE,
              event |-> [enriched EXCEPT !.billing_info  = <<billing>>,
                                         !.total_cost    = <<billing.total_cost>>,
                                         !.status        = "completed",
                                         !.error_message = "None"]]

(***************************************************************************)
(* UsageEventRepository: the usage_events table.                           *)
(***************************************************************************)
RowIndexes(table, id) == {i \in 1..Len(table) : table[i].event_id = id}

\* The row INSERT proposes for an event dict (column defaults filled in).
RowOf(event) ==
    [event_id      |-> event.event_id,
     service_type  |-> event.service_type,
     input_tokens  |-> event.input_tokens,
     output_tokens |-> event.output_tokens,
     total_tokens  |-> event.total_tokens,
     status        |-> IF event.status = "absent" THEN "pending" ELSE event.status,
     billing_info  |-> event.billing_info,
     total_cost    |-> event.total_cost,
     error_message |-> IF event.error_message = "absent" THEN "None"
                       ELSE event.error_message,
     retry_count   |-> Get(event.retry_count, 0)]

\* The five required fields are NOT NULL columns: the statement raises
\* IntegrityError for a dict that lacks one.
InsertRaises(event) == ~event.required_ok

\* Variant: ON CONFLICT (event_id) DO NOTHING (the first write wins).
upsert_event_do_nothing(table, event) ==
    IF RowIndexes(table, event.event_id) = {}
    THEN Append(table, RowOf(event))
    ELSE table

\* Variant: the conflicting row is replaced by the proposed row as a whole.
upsert_event_replace_row(table, event) ==
    IF RowIndexes(table, event.event_id) = {}
    THEN Append(table, RowOf(event))
    ELSE [i \in 1..Len(table) |->
             IF table[i].event_id = event.event_id THEN RowOf(event) ELSE table[i]]

\* INSERT ... ON CONFLICT (event_id) DO UPDATE SET status, billing_info,
\* total_cost, error_message, retry_count = excluded.*
upsert_event(table, event) ==
    LET excluded == RowOf(event)
    IN  IF RowIndexes(table, event.event_id) = {}
        THEN Append(table, excluded)
        ELSE [i \in 1..Len(table) |->
                 IF table[i].event_id = event.event_id
                 THEN [table[i] EXCEPT !.status        = excluded.status,
                                       !.billing_info  = excluded.billing_info,
                                       !.total_cost    = excluded.total_cost,
                                       !.error_message = excluded.error_message,
                                       !.retry_count   = excluded.retry_count]
                 ELSE table[i]]

RECURSIVE UpsertAll(_, _)
UpsertAll(table, events) ==
    IF events = <<>> THEN table
    ELSE UpsertAll(upsert_event(table, Head(events)), Tail(events))

RECURSIVE LogAll(_, _, _)
LogAll(log, events, r) ==
    IF events = <<>> THEN log
    ELSE LogAll([log EXCEPT ![Head(events).event_id] =
                                Append(@, [total_cost |-> Head(events).total_cost,
                                           by         |-> r])],
                Tail(events), r)

(***************************************************************************)
(* Producers and the environment.                                          *)
(***************************************************************************)
Submissions ==
    {<<"e1", "good">>, <<"e2", "good">>, <<"e2", "bogus_type">>,
     <<"e2", "missing_field">>, <<"e1", "bad_uuid">>, <<"e1", "foreign">>}

\* A producer (the gateway's create_event, or any other client of the
\* queue) pushes one serialized event.
Produce(id, kind) ==
    /\ submitted < MaxSubmissions
    /\ redis_up
    /\ usage_events' = LPush(usage_events, Serialize(FreshEvent(id, kind)))
    /\ submitted' = submitted + 1
    /\ UNCHANGED <<dead_letter_events, db_usage_events, billing_rule, redis_up,
                   store_up, proc, upsert_log>>
    /\ UNCHANGED <<gateway_vars, call_vars, aggregation_vars>>

\* An operator edits the billing rule row.
ChangeRule ==
    /\ billing_rule' \in [is_active : BOOLEAN, rate_per_unit : Rates]
    /\ billing_rule' # billing_rule
    /\ UNCHANGED <<usage_events, dead_letter_events, db_usage_events, redis_up,
                   store_up, proc, submitted, upsert_log>>
    /\ UNCHANGED <<gateway_vars, call_vars, aggregation_vars>>

(***************************************************************************)
(* EventProcessor._get_event_batch                                         *)
(***************************************************************************)
\* The values brpop and the following rpops return, oldest first: the n
\* values at the tail of the list.
RECURSIVE PopValues(_, _)
PopValues(list, n) ==
    IF n = 0 \/ list = <<>> THEN <<>>
    ELSE <<RPopValue(list)>> \o PopValues(RPopRest(list), n - 1)

\* The list after n pops.
RECURSIVE PopRest(_, _)
PopRest(list, n) ==
    IF n = 0 \/ list = <<>> THEN list ELSE PopRest(RPopRest(list), n - 1)

\* brpop returned a value; up to batch_size - 1 rpops follow until one
\* returns None. If Redis fails after the j-th pop, the except branch
\* returns [] and the values popped so far are dropped.
GetBatch(r) ==
    /\ proc[r].pc = "idle"
    /\ redis_up
    /\ usage_events # <<>>
    /\ \/ /\ usage_events' = PopRest(usage_events, batch_size)
          /\ proc' = [proc EXCEPT ![r] =
                 [@ EXCEPT !.pc = "process",
                           !.events =
                               LET popped == PopValues(usage_events, batch_size)
                               IN  [i \in 1..Len(popped) |->
                                       _deserialize_event(popped[i])]]]
          /\ UNCHANGED redis_up
       \/ \E j \in 1..(batch_size - 1) :
          /\ j <= Len(usage_events)
          /\ usage_events' = PopRest(usage_events, j)
          /\ UNCHANGED <<proc, redis_up>>
    /\ UNCHANGED <<dead_letter_events, db_usage_events, billing_rule,
                   store_up, submitted, upsert_log>>
    /\ UNCHANGED <<gateway_vars, call_vars, aggregation_vars>>

(***************************************************************************)
(* EventProcessor._process_event_batch                                     *)
(***************************************************************************)
\* "if processed_event:" is the truth value of the returned dict: None goes
\* to failed_events, every returned dict (marked failed or not) to
\* successful_events.
Truthy(result) == ~result.none

RECURSIVE SuccessfulOf(_, _, _, _)
SuccessfulOf(events, db_ok, billing_db_ok, rule) ==
    IF events = <<>> THEN <<>>
    ELSE LET res == _process_single_event(Head(events), db_ok, billing_db_ok, rule)
         IN  (IF Truthy(res) THEN <<res.event>> ELSE <<>>)
                 \o SuccessfulOf(Tail(events), db_ok, billing_db_ok, rule)

RECURSIVE FailedOf(_, _, _, _)
FailedOf(events, db_ok, billing_db_ok, rule) ==
    IF events = <<>> THEN <<>>
    ELSE LET res == _process_single_event(Head(events), db_ok, billing_db_ok, rule)
         IN  (IF Truthy(res) THEN <<>> ELSE <<Head(events)>>)
                 \o FailedOf(Tail(events), db_ok, billing_db_ok, rule)

\* Whether one database call succeeds: never while the store is down, and
\* a call may also fail on its own (a timeout, a dropped connection).
DbOutcomes == IF store_up THEN BOOLEAN ELSE {FALSE}

\* Whether one Redis call succeeds.
RedisOutcomes == IF redis_up THEN BOOLEAN ELSE {FALSE}

\* The for loop over the batch.
ProcessBatch(r) ==
    /\ proc[r].pc = "process"
    /\ \E db_ok \in DbOutcomes, billing_db_ok \in DbOutcomes :
          /\ \A i \in 1..Len(proc[r].events) :
                 Get(_process_single_event(proc[r].events[i], db_ok,
                         billing_db_ok, billing_rule).event.retry_count, 0)
                     <= MaxRetryCount
          /\ proc' = [proc EXCEPT ![r] =
                 [@ EXCEPT
                     !.pc = "store",
                     !.successful_events =
                         SuccessfulOf(proc[r].events, db_ok, billing_db_ok,
                                      billing_rule),
                     !.failed_events =
                         FailedOf(proc[r].events, db_ok, billing_db_ok,
                                  billing_rule)]]
    /\ UNCHANGED <<usage_events, dead_letter_events, db_usage_events,
                   billing_rule, redis_up, store_up, submitted, upsert_log>>
    /\ UNCHANGED <<gateway_vars, call_vars, aggregation_vars>>

\* _requeue_events: lpush each event; an exception is logged and swallowed.
_requeue_events(list, events, up) ==
    IF up THEN LPushAll(list, [i \in 1..Len(events) |-> Serialize(events[i])])
    ELSE list

(***************************************************************************)
(* EventProcessor._handle_failed_events                                    *)
(***************************************************************************)
\* Variant: "if retry_count <= 3".
RetryEvents_inclusive(failed) ==
    SelectSeq(failed, LAMBDA e : Get(e.retry_count, 0) <= MaxRetries)

RetryEvents(failed) ==
    SelectSeq(failed, LAMBDA e : Get(e.retry_count, 0) < MaxRetries)

DeadLetterEvents(failed) ==
    SelectSeq(failed, LAMBDA e : ~(Get(e.retry_count, 0) < MaxRetries))

\* _send_to_dead_letter_queue: mark, serialize, lpush; an exception is
\* logged and swallowed.
_send_to_dead_letter_queue(list, events, up) ==
    IF up
    THEN LPushAll(list,
             [i \in 1..Len(events) |->
                 Serialize([events[i] EXCEPT !.status = "dead_letter",
                                             !.dead_letter_at = "datetime"])])
    ELSE list

\* The rest of _process_event_batch after the loop.
\* _store_events: one session for the batch; commit at the end, rollback
\* and requeue of all of them on any exception. Then _handle_failed_events.
StoreAndHandleFailed(r) ==
    /\ proc[r].pc = "store"
    /\ \E db_ok \in DbOutcomes, store_requeue_ok \in RedisOutcomes,
          retry_ok \in RedisOutcomes, dlq_ok \in RedisOutcomes :
       LET events  == proc[r].successful_events
           failed  == proc[r].failed_events
           raises  == \/ ~db_ok
                      \/ \E i \in 1..Len(events) : InsertRaises(events[i])
           stored  == events # <<>> /\ ~raises
           requeued == IF events # <<>> /\ raises
                       THEN _requeue_events(usage_events, events, store_requeue_ok)
                       ELSE usage_events
       IN  /\ db_usage_events' =
                  IF stored THEN UpsertAll(db_usage_events, events)
                  ELSE db_usage_events
           /\ upsert_log' = IF stored THEN LogAll(upsert_log, events, r)
                            ELSE upsert_log
           /\ usage_events' =
                  _requeue_events(requeued, RetryEvents(failed), retry_ok)
           /\ dead_letter_events' =
                  _send_to_dead_letter_queue(dead_letter_events,
                                             DeadLetterEvents(failed), dlq_ok)
    /\ proc' = [proc EXCEPT ![r] = IdleProc]
    /\ UNCHANGED <<billing_rule, redis_up, store_up, submitted>>
    /\ UNCHANGED <<gateway_vars, call_vars, aggregation_vars>>

(***************************************************************************)
(* Ingest gateway: settings and requests.                                  *)
(***************************************************************************)
\* settings.rate_limit.per_minute (RATE_LIMIT_PER_MINUTE), scaled down.
rate_limit == 1

\* RateLimitMiddleware.__init__: self.window_size = 60
window_size == 60

MaxRequests == rate_limit + 1

Slots == {"s1", "s2"}
Identities == {"anonymous", "t1"}

\* AuthMiddleware.__init__
public_paths == {"/health", "/metrics", "/docs", "/redoc", "/openapi.json"}

\* AuthMiddleware._validate_api_key: the accepted keys and their tenants.
test_keys ==
    [k \in {"test-api-key", "demo-key", "admin-key"} |->
        CASE k = "test-api-key" -> "test-tenant"
          [] k = "demo-key"     -> "demo-tenant"
          [] OTHER              -> "admin-tenant"]

\* settings.batch.max_batch_size (MAX_BATCH_SIZE), scaled down.
max_batch_size == 3

\* An llm_service event as a client posts it. required_ok: tenant_id,
\* user_id, service_provider and model are present and non-empty.
\* temperature is in tenths (20 is 2.0); <<>> is a key that was not sent.
LLMEvent(id, required_ok, input_tokens, output_tokens, total_tokens, temperature) ==
    [event_id |-> id, service_type |-> "llm_service", required_ok |-> required_ok,
     input_tokens |-> input_tokens, output_tokens |-> output_tokens,
     total_tokens |-> total_tokens, temperature |-> temperature]

\* The events the modelled clients post, by name.
RawEvent(name) ==
    CASE name = "e1"       -> LLMEvent("e1", TRUE, InputTokens("e1"), OutputTokens("e1"), <<>>, <<>>)
      [] name = "e2"       -> LLMEvent("e2", TRUE, InputTokens("e2"), OutputTokens("e2"), <<>>, <<7>>)
      [] name = "e1_total" -> LLMEvent("e1", TRUE, InputTokens("e1"), OutputTokens("e1"), <<9>>, <<>>)
      [] OTHER             -> LLMEvent("e1", FALSE, InputTokens("e1"), OutputTokens("e1"), <<>>, <<>>)

\* LLMEventData(**event_data): the field constraints
\*   input_tokens: int = Field(gt=0), output_tokens: int = Field(ge=0),
\*   temperature: Optional[float] = Field(None, ge=0.0, le=2.0)
LLMEventDataRaises(event_data) ==
    \/ ~event_data.required_ok
    \/ ~(event_data.input_tokens > 0)
    \/ ~(event_data.output_tokens >= 0)
    \/ /\ event_data.temperature # <<>>
       /\ ~(event_data.temperature[1] >= 0 /\ event_data.temperature[1] <= 20)

\* LLMEventData.calculate_total_tokens: the sum only when no value was sent.
calculate_total_tokens(v, values) ==
    IF v = <<>> THEN <<values.input_tokens + values.output_tokens>> ELSE v

\* validate_event_data for service_type llm_service: ok = FALSE when the
\* model raises, else the dict of to_event_dict().
validate_event_data(event_data) ==
    IF LLMEventDataRaises(event_data)
    THEN [ok |-> FALSE, event |-> EmptyDict]
    ELSE [ok |-> TRUE,
          event |-> [EmptyDict EXCEPT
              !.event_id      = event_data.event_id,
              !.service_type  = event_data.service_type,
              !.required_ok   = TRUE,
              !.input_tokens  = event_data.input_tokens,
              !.output_tokens = event_data.output_tokens,
              !.total_tokens  = calculate_total_tokens(event_data.total_tokens,
                                                       event_data)]]

\* A header value is the sequence of its space-separated words; <<>> is a
\* header that was not sent. The body lists the events posted, by name
\* ("invalid" is an event that validate_event_data rejects).
Request(path, x_api_key, authorization, x_tenant_id, body) ==
    [path |-> path, x_api_key |-> x_api_key, authorization |-> authorization,
     x_tenant_id |-> x_tenant_id, body |-> body]

Requests ==
    {Request("/health", <<>>, <<>>, "t1", <<>>),
     Request("/metrics", <<>>, <<>>, "", <<>>),
     Request("/api/v1/events", <<>>, <<>>, "t1", <<"e1">>),
     Request("/api/v1/events", <<"bad-key">>, <<>>, "t1", <<"e1">>),
     Request("/api/v1/events", <<"test-api-key">>, <<>>, "t1", <<"e1">>),
     Request("/api/v1/events", <<>>, <<"Bearer", "demo-key">>, "", <<"e2">>),
     Request("/api/v1/events", <<"test-api-key">>, <<>>, "t1", <<"invalid">>),
     Request("/api/v1/events/batch", <<"test-api-key">>, <<>>, "t1",
             <<"e1_total", "invalid", "e2">>)}

\* Batch requests at the edges of the size check, and a single event that
\* carries its own total_tokens.
BatchRequests ==
    {Request("/api/v1/events/batch", <<"test-api-key">>, <<>>, "t1", <<>>),
     Request("/api/v1/events/batch", <<"test-api-key">>, <<>>, "t1",
             [i \in 1..max_batch_size |-> "e2"]),
     Request("/api/v1/events/batch", <<"test-api-key">>, <<>>, "t1",
             [i \in 1..(max_batch_size + 1) |-> "e2"]),
     Request("/api/v1/events", <<"test-api-key">>, <<>>, "t1", <<"e1_total">>)}

\* A response: status 0 is "none yet"; -1 is a header that is not set.
NoResponse ==
    [status |-> 0, error |-> "none", health |-> "none", retry_after |-> -1,
     ratelimit_limit |-> -1, ratelimit_remaining |-> -1, processed_count |-> -1,
     failed_count |-> -1, failed_events |-> {}, event_id |-> "none"]

IdleSlot ==
    [pc |-> "idle", req |-> Request("", <<>>, <<>>, "", <<>>),
     tenant_id |-> "none", limited |-> FALSE, current_requests |-> 0,
     handled |-> FALSE, response |-> NoResponse]

\* The gateway process before startup_event; limiter_client is the
\* redis_client argument RateLimitMiddleware was constructed with.
GatewayInit(limiter_client) ==
    /\ started = FALSE
    /\ redis_client = FALSE
    /\ rl_client = limiter_client
    /\ rl_count = [id \in Identities |-> 0]
    /\ rl_ttl = [id \in Identities |-> -2]
    /\ slots = [s \in Slots |-> IdleSlot]
    /\ background_tasks = <<>>
    /\ received = 0
    /\ accepted_now = [id \in Identities |-> 0]
    /\ accepted_events = {}
    /\ fallback_failed = FALSE

(***************************************************************************)
(* AuthMiddleware and RateLimitMiddleware                                  *)
(***************************************************************************)
\* request.headers.get("X-API-Key") or request.headers.get("Authorization")
ApiKeyHeader(req) ==
    IF req.x_api_key # <<>> THEN req.x_api_key ELSE req.authorization

\* Variant: the "Bearer " prefix is left in place.
StripBearer_keep(api_key) == api_key

\* if api_key.startswith("Bearer "): api_key = api_key[7:]
StripBearer(api_key) ==
    IF Len(api_key) > 1 /\ api_key[1] = "Bearer" THEN Tail(api_key) ELSE api_key

_validate_api_key(api_key) ==
    Len(api_key) = 1 /\ api_key[1] \in DOMAIN test_keys

\* AuthMiddleware.dispatch: the 401 it returns, or NoResponse when the
\* request is passed on.
AuthResponse(req) ==
    IF req.path \in public_paths THEN NoResponse
    ELSE IF ApiKeyHeader(req) = <<>>
    THEN [NoResponse EXCEPT !.status = 401, !.error = "authentication_required"]
    ELSE IF ~_validate_api_key(StripBearer(ApiKeyHeader(req)))
    THEN [NoResponse EXCEPT !.status = 401, !.error = "invalid_api_key"]
    ELSE NoResponse

\* request.state.tenant_id after AuthMiddleware.
StateTenantId(req) ==
    IF req.path \notin public_paths
       /\ ApiKeyHeader(req) # <<>>
       /\ _validate_api_key(StripBearer(ApiKeyHeader(req)))
    THEN test_keys[StripBearer(ApiKeyHeader(req))[1]]
    ELSE "none"

\* RateLimitMiddleware._get_client_id (one client address).
_get_client_id(req) ==
    IF req.x_tenant_id # "" THEN req.x_tenant_id ELSE "anonymous"

\* The limiter is skipped for these paths and when it has no Redis client.
Bypassed(req) == req.path \in {"/health", "/metrics"} \/ ~rl_client

\* _get_request_count: 0 when the key is absent or Redis raises.
_get_request_count(client_id) == IF redis_up THEN rl_count[client_id] ELSE 0

\* Variant: return ttl.
_get_reset_time_raw_ttl(client_id) ==
    IF redis_up THEN rl_ttl[client_id] ELSE window_size

\* _get_reset_time: max(1, ttl), or window_size when Redis raises.
_get_reset_time(client_id) ==
    IF redis_up
    THEN (IF rl_ttl[client_id] > 1 THEN rl_ttl[client_id] ELSE 1)
    ELSE window_size

\* startup_event: redis_client stays None when the ping fails.
Startup ==
    /\ ~started
    /\ started' = TRUE
    /\ redis_client' = redis_up
    /\ UNCHANGED <<usage_events, db_usage_events, redis_up, store_up,
                   processor_vars, call_vars, aggregation_vars, rl_client, rl_count, rl_ttl, slots,
                   background_tasks, received, accepted_now, accepted_events,
                   fallback_failed>>

\* A request arrives on a free connection and runs through
\* AuthMiddleware.dispatch and RateLimitMiddleware.dispatch up to the read
\* of the counter: it is answered 401 or 429, or admitted.
Receive(s, req) ==
    /\ started
    /\ slots[s].pc \in {"idle", "done"}
    /\ received < MaxRequests
    /\ received' = received + 1
    /\ LET auth    == AuthResponse(req)
           id      == _get_client_id(req)
           current == _get_request_count(id)
           fresh   == [IdleSlot EXCEPT !.req = req]
       IN  slots' = [slots EXCEPT ![s] =
               IF auth.status = 401
               THEN [fresh EXCEPT !.pc = "done", !.response = auth]
               ELSE IF Bypassed(req)
               THEN [fresh EXCEPT !.pc = "admitted",
                                  !.tenant_id = StateTenantId(req)]
               ELSE IF current >= rate_limit
               THEN [fresh EXCEPT
                        !.pc = "done",
                        !.tenant_id = StateTenantId(req),
                        !.current_requests = current,
                        !.response =
                            [NoResponse EXCEPT
                                !.status = 429,
                                !.error = "rate_limit_exceeded",
                                !.retry_after = _get_reset_time(id),
                                !.ratelimit_limit = rate_limit,
                                !.ratelimit_remaining = 0]]
               ELSE [fresh EXCEPT !.pc = "admitted",
                                  !.tenant_id = StateTenantId(req),
                                  !.limited = TRUE,
                                  !.current_requests = current]]
    /\ UNCHANGED <<usage_events, db_usage_events, redis_up, store_up,
                   processor_vars, call_vars, aggregation_vars, started, redis_client, rl_client, rl_count,
                   rl_ttl, background_tasks, accepted_now, accepted_events,
                   fallback_failed>>

(***************************************************************************)
(* Route handlers and background tasks.                                    *)
(***************************************************************************)
\* validated_events: the dicts of the events of a body that
\* validate_event_data accepts, in the order of the body.
RECURSIVE ValidatedEvents(_)
ValidatedEvents(body) ==
    IF body = <<>> THEN <<>>
    ELSE LET validated == validate_event_data(RawEvent(Head(body)))
         IN  (IF validated.ok THEN <<validated.event>> ELSE <<>>)
                 \o ValidatedEvents(Tail(body))

\* failed_events: the indexes (from 0, as enumerate counts) of the events of
\* a body that validate_event_data rejects.
FailedIndexes(body) ==
    {i - 1 : i \in {j \in DOMAIN body : ~validate_event_data(RawEvent(body[j])).ok}}

\* Variant: the size of a batch is not checked.
BatchSizeRejected_unchecked(events) == FALSE

\* create_events_batch: "if not events" and
\* "if len(events) > settings.batch.max_batch_size" raise HTTPException(400).
BatchSizeRejected(events) == events = <<>> \/ Len(events) > max_batch_size

\* The validated events the route handler goes on to hand off.
HandedOff(req) ==
    CASE req.path = "/api/v1/events" -> ValidatedEvents(req.body)
      [] req.path = "/api/v1/events/batch" ->
             IF BatchSizeRejected(req.body) THEN <<>> ELSE ValidatedEvents(req.body)
      [] OTHER -> <<>>

\* health_check: redis_healthy needs a client and a ping that answers.
HealthStatus ==
    IF (redis_client /\ redis_up) /\ store_up THEN "healthy" ELSE "unhealthy"

\* Status code of the route handler for an admitted request.
\*   create_event: every exception inside the try block becomes a 400.
\*   create_events_batch: per-event validation errors are collected;
\*   an exception of pipe.execute() is not caught.
HandlerStatus(req) ==
    LET validated == ValidatedEvents(req.body)
        push_raises == redis_client /\ ~redis_up
    IN  CASE req.path = "/api/v1/events" ->
                 IF validated = <<>> \/ push_raises THEN 400 ELSE 200
          [] req.path = "/api/v1/events/batch" ->
                 IF BatchSizeRejected(req.body) THEN 400
                 ELSE IF validated # <<>> /\ push_raises THEN 500 ELSE 200
          [] OTHER -> 200

\* The validated events the handler pushes to usage_events.
Enqueued(req) ==
    IF req.path \in {"/api/v1/events", "/api/v1/events/batch"}
       /\ redis_client /\ redis_up
    THEN HandedOff(req)
    ELSE <<>>

\* The validated events the handler hands to a background task
\* (_store_event_directly / _store_events_directly).
DirectStored(req) ==
    IF req.path \in {"/api/v1/events", "/api/v1/events/batch"} /\ ~redis_client
    THEN HandedOff(req)
    ELSE <<>>

SeqRange(seq) == {seq[i] : i \in DOMAIN seq}

\* _increment_request_count: incr, then expire; an exception of either call
\* is swallowed. A key created by incr has no expiry until expire succeeds.
IncrementedCount(client_id) ==
    IF redis_up THEN rl_count[client_id] + 1 ELSE rl_count[client_id]

TtlAfterIncrement(client_id, expire_ok) ==
    IF ~redis_up THEN rl_ttl[client_id]
    ELSE IF expire_ok THEN window_size
    ELSE IF rl_ttl[client_id] = -2 THEN -1
    ELSE rl_ttl[client_id]

\* An admitted request: RateLimitMiddleware increments the counter (unless
\* bypassed), the route handler runs, and the response is sent.
Handle(s) ==
    /\ slots[s].pc = "admitted"
    /\ \E expire_ok \in RedisOutcomes :
       LET slot   == slots[s]
           req    == slot.req
           id     == _get_client_id(req)
           status == HandlerStatus(req)
           direct == DirectStored(req)
       IN  /\ rl_count' = IF slot.limited
                          THEN [rl_count EXCEPT ![id] = IncrementedCount(id)]
                          ELSE rl_count
           /\ rl_ttl' = IF slot.limited
                        THEN [rl_ttl EXCEPT ![id] = TtlAfterIncrement(id, expire_ok)]
                        ELSE rl_ttl
           /\ usage_events' =
                  LPushAll(usage_events,
                           [i \in DOMAIN Enqueued(req) |->
                               Serialize(Enqueued(req)[i])])
           /\ background_tasks' =
                  IF direct # <<>>
                  THEN Append(background_tasks,
                              [single |-> req.path = "/api/v1/events",
                               events |-> direct])
                  ELSE background_tasks
           /\ accepted_events' =
                  accepted_events \cup {direct[i].event_id : i \in DOMAIN direct}
           /\ accepted_now' =
                  IF req.path \in {"/health", "/metrics"} THEN accepted_now
                  ELSE [accepted_now EXCEPT ![id] = @ + 1]
           /\ slots' = [slots EXCEPT ![s] =
                  [slot EXCEPT
                      !.pc = "done",
                      !.handled = TRUE,
                      !.response =
                          [NoResponse EXCEPT
                              !.status = status,
                              !.error = IF status = 200 THEN "none"
                                        ELSE IF status = 400 THEN "invalid_event_data"
                                        ELSE "internal_server_error",
                              !.health = IF req.path = "/health"
                                         THEN HealthStatus ELSE "none",
                              !.processed_count =
                                  IF status = 200
                                     /\ req.path = "/api/v1/events/batch"
                                  THEN Len(ValidatedEvents(req.body)) ELSE -1,
                              !.failed_count =
                                  IF status = 200
                                     /\ req.path = "/api/v1/events/batch"
                                  THEN Cardinality(FailedIndexes(req.body)) ELSE -1,
                              !.failed_events =
                                  IF status = 200
                                     /\ req.path = "/api/v1/events/batch"
                                  THEN FailedIndexes(req.body) ELSE {},
                              !.event_id =
                                  IF status = 200 /\ req.path = "/api/v1/events"
                                  THEN ValidatedEvents(req.body)[1].event_id
                                  ELSE "none",
                              !.ratelimit_limit =
                                  IF slot.limited /\ status # 500
                                  THEN rate_limit ELSE -1,
                              !.ratelimit_remaining =
                                  IF slot.limited /\ status # 500
                                  THEN (IF rate_limit - slot.current_requests - 1 > 0
                                        THEN rate_limit - slot.current_requests - 1
                                        ELSE 0)
                                  ELSE -1]]]
    /\ UNCHANGED <<db_usage_events, redis_up, store_up, processor_vars, call_vars, aggregation_vars,
                   started, redis_client, rl_client, received, fallback_failed>>

\* UsageEventRepository.create_event / create_events_batch: a plain INSERT
\* per event, flushed in one session; a duplicate event_id (in the table or
\* within the batch) raises IntegrityError and the session rolls back.
InsertConflicts(table, events) ==
    \/ \E i \in DOMAIN events : RowIndexes(table, events[i].event_id) # {}
    \/ \E i, j \in DOMAIN events :
          i # j /\ events[i].event_id = events[j].event_id

RECURSIVE InsertAll(_, _)
InsertAll(table, events) ==
    IF events = <<>> THEN table
    ELSE InsertAll(Append(table, RowOf(Head(events))), Tail(events))

\* _store_event_directly / _store_events_directly run after the response
\* was sent; every exception is logged and swallowed.
RunBackgroundTask ==
    /\ background_tasks # <<>>
    /\ LET task == Head(background_tasks)
       IN  /\ db_usage_events' =
                  IF store_up /\ ~InsertConflicts(db_usage_events, task.events)
                  THEN InsertAll(db_usage_events, task.events)
                  ELSE db_usage_events
           /\ fallback_failed' = (fallback_failed \/ ~store_up)
    /\ background_tasks' = Tail(background_tasks)
    /\ UNCHANGED <<usage_events, redis_up, store_up, processor_vars, call_vars, aggregation_vars, started,
                   redis_client, rl_client, rl_count, rl_ttl, slots, received,
                   accepted_now, accepted_events>>

(***************************************************************************)
(* Environment of the gateway.                                             *)
(***************************************************************************)
ElapseSteps == {window_size \div 2, window_size - 1}

\* t seconds pass: keys with an expiry lose t seconds of TTL and vanish
\* when it is used up.
Elapse(t) ==
    /\ started
    /\ \E id \in Identities : rl_ttl[id] > 0 \/ accepted_now[id] > 0
    /\ rl_ttl' = [id \in Identities |->
                     IF rl_ttl[id] > t THEN rl_ttl[id] - t
                     ELSE IF rl_ttl[id] = -1 THEN -1
                     ELSE -2]
    /\ rl_count' = [id \in Identities |->
                       IF rl_ttl[id] > t \/ rl_ttl[id] = -1 THEN rl_count[id]
                       ELSE 0]
    /\ accepted_now' = [id \in Identities |-> 0]
    /\ UNCHANGED <<usage_events, db_usage_events, redis_up, store_up,
                   processor_vars, call_vars, aggregation_vars, started, redis_client, rl_client, slots,
                   background_tasks, received, accepted_events, fallback_failed>>

StoreFlip ==
    /\ store_up' = ~store_up
    /\ UNCHANGED <<usage_events, db_usage_events, redis_up, processor_vars, call_vars, aggregation_vars,
                   gateway_vars>>

RedisFlip ==
    /\ redis_up' = ~redis_up
    /\ UNCHANGED <<usage_events, db_usage_events, store_up, processor_vars, call_vars, aggregation_vars,
                   gateway_vars>>

(***************************************************************************)
(* Specifications.                                                         *)
(***************************************************************************)
\* The processors at work on what producers push, Redis and the database
\* reachable (single calls may still fail).
Init ==
    /\ ProcessorInit
    /\ billing_rule \in [is_active : BOOLEAN, rate_per_unit : Rates]
    /\ redis_up = TRUE
    /\ store_up = TRUE
    /\ GatewayInit(FALSE)
    /\ NoCalls
    /\ NoAggregation

Next ==
    \/ \E s \in Submissions : Produce(s[1], s[2])
    \/ ChangeRule
    \/ \E r \in Replicas : GetBatch(r)
    \/ \E r \in Replicas : ProcessBatch(r)
    \/ \E r \in Replicas : StoreAndHandleFailed(r)

Spec == Init /\ [][Next]_vars

\* Event dicts as a replica can find them in a batch: as produced, or as
\* re-queued after earlier attempts (with a retry_count and a status).
InputEvents ==
    {[_deserialize_event(FreshEvent(s[1], s[2])) EXCEPT
          !.retry_count = IF s[2] = "foreign" THEN @ ELSE rc,
          !.status      = st] :
        s \in Submissions,
        rc \in {<<>>} \cup {<<n>> : n \in 0..(MaxRetryCount - 1)},
        st \in {"absent", "failed", "completed"}}

\* One replica holds a batch of one or two such events.
SingleEventInit ==
    /\ usage_events = <<>>
    /\ dead_letter_events = <<>>
    /\ db_usage_events = <<>>
    /\ \E a \in InputEvents, b \in InputEvents :
          proc = [r \in Replicas |->
                     IF r = "p1"
                     THEN [IdleProc EXCEPT
                              !.pc = "process",
                              !.events = IF b.status = "absent" /\ b.retry_count = <<>>
                                         THEN <<a, b>> ELSE <<a>>]
                     ELSE IdleProc]
    /\ submitted = 0
    /\ upsert_log = [e \in EventIds |-> <<>>]
    /\ billing_rule \in [is_active : BOOLEAN, rate_per_unit : Rates]
    /\ redis_up = TRUE
    /\ store_up = TRUE
    /\ GatewayInit(FALSE)
    /\ NoCalls
    /\ NoAggregation

SingleEventNext ==
    \/ \E r \in Replicas : ProcessBatch(r)
    \/ \E r \in Replicas : StoreAndHandleFailed(r)

\* _process_single_event applied to every event of such a batch.
SingleEventSpec == SingleEventInit /\ [][SingleEventNext]_vars

GatewayNext ==
    \/ Startup
    \/ \E s \in Slots, req \in Requests \cup BatchRequests : Receive(s, req)
    \/ \E s \in Slots : Handle(s)
    \/ RunBackgroundTask
    \/ \E t \in ElapseSteps : Elapse(t)
    \/ RedisFlip
    \/ StoreFlip

\* The gateway as main.py assembles it: app.add_middleware(RateLimitMiddleware)
\* passes no redis_client.
AssembledInit ==
    /\ ProcessorInit
    /\ billing_rule \in [is_active : {TRUE}, rate_per_unit : Rates]
    /\ redis_up \in BOOLEAN
    /\ store_up \in BOOLEAN
    /\ GatewayInit(FALSE)
    /\ NoCalls
    /\ NoAggregation

GatewaySpec == AssembledInit /\ [][GatewayNext]_vars

\* The same application with RateLimitMiddleware constructed with a client.
LimiterInit ==
    /\ ProcessorInit
    /\ billing_rule \in [is_active : {TRUE}, rate_per_unit : Rates]
    /\ redis_up \in BOOLEAN
    /\ store_up \in BOOLEAN
    /\ GatewayInit(TRUE)
    /\ NoCalls
    /\ NoAggregation

LimiterNext ==
    \/ Startup
    \/ \E s \in Slots, req \in Requests : Receive(s, req)
    \/ \E s \in Slots : Handle(s)
    \/ RunBackgroundTask
    \/ \E t \in ElapseSteps : Elapse(t)
    \/ RedisFlip
    \/ StoreFlip

LimiterSpec == LimiterInit /\ [][LimiterNext]_vars

(***************************************************************************)
(* Properties of the pipeline.                                             *)
(***************************************************************************)
LastUpsert(e) == upsert_log[e][Len(upsert_log[e])]

\* C1: however often an event_id is submitted and however the replicas
\* interleave, the table holds at most one row with that event_id, exactly
\* one as soon as an upsert of it was committed, and that row's total_cost
\* is the one written by the most recent committed upsert.
C1_OneRowLastWins ==
    \A e \in EventIds :
        LET rows == RowIndexes(db_usage_events, e)
        IN  /\ Cardinality(rows) <= 1
            /\ upsert_log[e] = <<>> => rows = {}
            /\ upsert_log[e] # <<>> =>
                   /\ Cardinality(rows) = 1
                   /\ \A i \in rows :
                          db_usage_events[i].total_cost = LastUpsert(e).total_cost

\* Two replicas have upserted the same event_id with different costs, and
\* no replica is in the middle of a batch.
C1_Witness ==
    /\ \E e \in EventIds :
          /\ Len(upsert_log[e]) >= 2
          /\ upsert_log[e][1].by # upsert_log[e][2].by
          /\ upsert_log[e][1].total_cost # upsert_log[e][2].total_cost
          /\ Cardinality(RowIndexes(db_usage_events, e)) = 1
    /\ \A r \in Replicas : proc[r].pc = "idle"
    /\ usage_events = <<>>

\* C2: no step changes total_cost or billing_info of a row whose status is
\* completed.
C2_CompletedCostStable ==
    [][\A i \in DOMAIN db_usage_events :
          db_usage_events[i].status = "completed" =>
              /\ db_usage_events'[i].total_cost = db_usage_events[i].total_cost
              /\ db_usage_events'[i].billing_info = db_usage_events[i].billing_info]_vars

\* C3: an event whose processing failed waits on usage_events for its next
\* attempt while it has failed fewer than three times and is dead-lettered
\* at the third failure: no failed event is written to the table instead,
\* and no payload on usage_events has already failed three times.
C3_FailedRetriedThenDeadLettered ==
    /\ \A i \in DOMAIN db_usage_events : db_usage_events[i].status # "failed"
    /\ \A i \in DOMAIN usage_events :
           usage_events[i].status = "failed" =>
               Get(usage_events[i].retry_count, 0) < MaxRetries

Count(list, x) == Cardinality({i \in DOMAIN list : list[i] = x})

\* The payload _send_to_dead_letter_queue writes for a failed event.
DeadLetterPayload(f) ==
    Serialize([f EXCEPT !.status = "dead_letter", !.dead_letter_at = "datetime"])

\* A replica finishes a batch in this step.
HandlesBatch(r) == proc[r].pc = "store" /\ proc'[r].pc = "idle"

WithEventId(events) == SelectSeq(events, LAMBDA e : e.event_id # "none")

Receives(s) == received' = received + 1 /\ slots'[s] # slots[s]
Answers(s) == slots[s].pc = "admitted" /\ slots'[s].pc = "done"

LimitedPath(req) == req.path \notin {"/health", "/metrics"}

\* C6: per identity, the requests to limited paths that were passed to the
\* route handler without any time passing between them (so within one
\* 60-second window) number at most RATE_LIMIT_PER_MINUTE.
C6_AcceptedWithinLimit ==
    \A id \in Identities : accepted_now[id] <= rate_limit

C8_HealthBypassAndStatus ==
    [][\A s \in Slots :
          /\ (Receives(s) /\ ~LimitedPath(slots'[s].req)) =>
                 /\ slots'[s].pc = "admitted"
                 /\ UNCHANGED <<rl_count, rl_ttl>>
          /\ (Answers(s) /\ ~LimitedPath(slots[s].req)) =>
                 /\ slots'[s].response.status = 200
                 /\ UNCHANGED <<rl_count, rl_ttl, accepted_now>>
          /\ (Answers(s) /\ slots[s].req.path = "/health") =>
                 (slots'[s].response.health = "healthy"
                      <=> (redis_up /\ store_up))]_vars

\* The key a request presents is one of the accepted keys, bare or after
\* "Bearer ".
PresentsKnownKey(req) ==
    LET header == IF req.x_api_key # <<>> THEN req.x_api_key
                  ELSE req.authorization
    IN  \E k \in DOMAIN test_keys : header \in {<<k>>, <<"Bearer", k>>}

PresentsNoKey(req) == req.x_api_key = <<>> /\ req.authorization = <<>>

\* C9: on a non-public path, a request without key is answered 401
\* authentication_required and one with an unknown key 401 invalid_api_key,
\* in both cases without reaching the route handler; a request with a valid
\* key is passed on with the key's tenant on request.state.
C9_Authentication ==
    \A s \in Slots :
        (slots[s].pc # "idle" /\ slots[s].req.path \notin public_paths) =>
            LET req == slots[s].req
            IN  IF PresentsNoKey(req)
                THEN /\ slots[s].pc = "done" /\ ~slots[s].handled
                     /\ slots[s].response.status = 401
                     /\ slots[s].response.error = "authentication_required"
                ELSE IF ~PresentsKnownKey(req)
                THEN /\ slots[s].pc = "done" /\ ~slots[s].handled
                     /\ slots[s].response.status = 401
                     /\ slots[s].response.error = "invalid_api_key"
                ELSE /\ slots[s].response.status # 401
                     /\ slots[s].pc = "admitted" \/ slots[s].handled
                     /\ \E k \in DOMAIN test_keys :
                           /\ slots[s].tenant_id = test_keys[k]
                           /\ k \in SeqRange(IF req.x_api_key # <<>>
                                             THEN req.x_api_key
                                             ELSE req.authorization)

\* One request was refused for its unknown key, and one sent with
\* "Authorization: Bearer demo-key" was handled for demo-tenant; nothing
\* was enqueued or stored for the refused one.
C9_Witness ==
    \E s, t \in Slots :
        /\ slots[s].response.error = "invalid_api_key"
        /\ slots[t].handled
        /\ slots[t].req.authorization = <<"Bearer", "demo-key">>
        /\ slots[t].tenant_id = "demo-tenant"
        /\ slots[t].response.status = 200

\* C10: once the background tasks have run, with every fallback write
\* having found the database reachable, each event that was reported
\* accepted on the fallback path has a row in the table.
C10_AcceptedPersisted ==
    (background_tasks = <<>> /\ ~fallback_failed) =>
        \A id \in accepted_events : RowIndexes(db_usage_events, id) # {}

IngestPaths == {"/api/v1/events", "/api/v1/events/batch"}

\* C11: an ingest request carrying at least one valid event that is answered
\* while neither the queue (no client, or Redis down) nor the database can
\* be reached is answered 503.
C11_UnreachableAnswers503 ==
    [][\A s \in Slots :
          (/\ Answers(s)
           /\ slots[s].req.path \in IngestPaths
           /\ HandedOff(slots[s].req) # <<>>
           /\ ~(redis_client /\ redis_up)
           /\ ~store_up)
              => slots'[s].response.status = 503]_vars

\* The event a single-event request carries passes validate_event_data.
BodyValid(req) == validate_event_data(RawEvent(req.body[1])).ok

\* C12: POST /api/v1/events is answered 400 exactly when the event fails
\* validation, and otherwise 200 with the event_id of the event; a request
\* answered 400 pushes nothing to usage_events and schedules no write.
C12_SingleEvent400IffInvalid ==
    [][\A s \in Slots :
          (Answers(s) /\ slots[s].req.path = "/api/v1/events") =>
              LET req == slots[s].req
                  response == slots'[s].response
              IN  /\ response.status = 400 <=> ~BodyValid(req)
                  /\ response.status = 400 =>
                         UNCHANGED <<usage_events, background_tasks, db_usage_events>>
                  /\ BodyValid(req) =>
                         /\ response.status = 200
                         /\ response.event_id = RawEvent(req.body[1]).event_id]_vars

\* The events of a batch body that pass validation, as dicts, in input order.
PassingEvents(body) ==
    LET passing == SelectSeq(body, LAMBDA x : validate_event_data(RawEvent(x)).ok)
    IN  [i \in DOMAIN passing |-> validate_event_data(RawEvent(passing[i])).event]

\* C13: a batch of 1..MAX_BATCH_SIZE events is answered 200 whatever the
\* number of events that fail validation, with processed_count + failed_count
\* equal to the number of events submitted, failed_events holding exactly the
\* indexes of the events that failed validation, and exactly the events that
\* passed handed off (pushed to usage_events, or given to the fallback task
\* when there is no queue client) in input order.
C13_BatchValidatedIndependently ==
    [][\A s \in Slots :
          (/\ Answers(s)
           /\ slots[s].req.path = "/api/v1/events/batch"
           /\ Len(slots[s].req.body) \in 1..max_batch_size) =>
              LET body == slots[s].req.body
                  response == slots'[s].response
                  passing == PassingEvents(body)
              IN  /\ response.status = 200
                  /\ response.processed_count + response.failed_count = Len(body)
                  /\ response.processed_count = Len(passing)
                  /\ response.failed_events =
                         {i \in 0..(Len(body) - 1) :
                             ~validate_event_data(RawEvent(body[i + 1])).ok}
                  /\ IF redis_client
                     THEN /\ usage_events' =
                                 LPushAll(usage_events,
                                          [i \in DOMAIN passing |-> Serialize(passing[i])])
                          /\ UNCHANGED background_tasks
                     ELSE /\ UNCHANGED usage_events
                          /\ passing # <<>> =>
                                 /\ Len(background_tasks') = Len(background_tasks) + 1
                                 /\ background_tasks'[Len(background_tasks')].events
                                        = passing]_vars

\* C14: a batch request with no events or with more than MAX_BATCH_SIZE
\* events is answered 400, and answering it pushes nothing to usage_events,
\* schedules no fallback write and stores nothing.
C14_BatchSizeRejected ==
    [][\A s \in Slots :
          (/\ Answers(s)
           /\ slots[s].req.path = "/api/v1/events/batch"
           /\ (Len(slots[s].req.body) = 0 \/ Len(slots[s].req.body) > max_batch_size)) =>
              /\ slots'[s].response.status = 400
              /\ slots'[s].response.processed_count = -1
              /\ UNCHANGED <<usage_events, background_tasks, db_usage_events,
                             accepted_events>>]_vars

\* An empty batch and a batch of MAX_BATCH_SIZE + 1 valid events were both
\* answered 400 by the route handler, with Redis connected and reachable,
\* and the queue is still empty.
C14_Witness ==
    /\ redis_client /\ redis_up
    /\ usage_events = <<>>
    /\ \E s, t \in Slots :
          /\ slots[s].handled /\ slots[t].handled
          /\ slots[s].req.path = "/api/v1/events/batch"
          /\ slots[t].req.path = "/api/v1/events/batch"
          /\ slots[s].req.body = <<>>
          /\ Len(slots[t].req.body) = max_batch_size + 1
          /\ ValidatedEvents(slots[t].req.body) # <<>>
          /\ slots[s].response.status = 400
          /\ slots[t].response.status = 400

\* C15: every llm_service row of the table carries
\* total_tokens = input_tokens + output_tokens, whichever way it was written
\* and whatever total_tokens the client sent.
C15_TotalTokensDerived ==
    \A i \in DOMAIN db_usage_events :
        db_usage_events[i].service_type = "llm_service" =>
            db_usage_events[i].total_tokens =
                <<db_usage_events[i].input_tokens + db_usage_events[i].output_tokens>>

(***************************************************************************)
(* Single calls of pure functions, the rest of the system at rest.         *)
(***************************************************************************)
AtRest ==
    /\ ProcessorInit
    /\ billing_rule \in [is_active : {TRUE}, rate_per_unit : Rates]
    /\ redis_up = TRUE
    /\ store_up = TRUE
    /\ GatewayInit(FALSE)
    /\ NoAggregation

MaxTokens == 2

\* llm_service events a client can post: token counts around zero,
\* temperatures around both ends of [0.0, 2.0] (in tenths).
PostedEvents ==
    {LLMEvent("e1", required_ok, input_tokens, output_tokens, total_tokens, temperature) :
        required_ok \in BOOLEAN,
        input_tokens \in -1..MaxTokens,
        output_tokens \in -1..MaxTokens,
        total_tokens \in {<<>>, <<9>>},
        temperature \in {<<>>, <<-1>>, <<0>>, <<7>>, <<20>>, <<21>>}}

ValidatorInit ==
    /\ AtRest
    /\ validator_call \in [done : {FALSE}, event_data : PostedEvents]
    /\ pricing_call = NoCall
    /\ tier_call = NoCall
    /\ cost_call = NoCall
    /\ query_call = NoCall
    /\ trend_call = NoCall
    /\ running = [r \in Replicas |-> TRUE]
    /\ boundaries_call = NoCall
    /\ tracker = NoCall
    /\ isolation_call = NoCall

\* validated_event = validate_event_data(event_data)
Validate ==
    /\ ~validator_call.done
    /\ validator_call' =
           [done |-> TRUE, event_data |-> validator_call.event_data,
            validated_event |-> validate_event_data(validator_call.event_data)]
    /\ UNCHANGED <<usage_events, dead_letter_events, db_usage_events, billing_rule,
                   redis_up, store_up, proc, submitted, upsert_log, gateway_vars,
                   aggregation_vars,
                   pricing_call, tier_call, cost_call, query_call, trend_call, running,
                   boundaries_call, tracker, isolation_call>>

ValidatorSpec == ValidatorInit /\ [][Validate]_vars

\* C16: an llm_service event that carries user_id, model and both token
\* counts is accepted exactly when both counts are >= 0 and temperature, if
\* sent, lies in [0, 2]; in particular input_tokens = 0 is accepted.
C16_LLMEventAccepted ==
    (validator_call.done /\ validator_call # NoCall
         /\ validator_call.event_data.required_ok) =>
        LET e == validator_call.event_data
        IN  validator_call.validated_event.ok <=>
                /\ e.input_tokens >= 0
                /\ e.output_tokens >= 0
                /\ (e.temperature = <<>>
                       \/ (e.temperature[1] >= 0 /\ e.temperature[1] <= 20))

(***************************************************************************)
(* Rule selection: BillingRuleRepository.get_active_billing_rule as called *)
(* by EventProcessor._calculate_billing.                                   *)
(***************************************************************************)
MaxTime == 2
MaxRules == 2

Providers == {"openai", "other"}
Models == {"gpt-3.5", "gpt-4"}

\* Rows of billing_rules for service_type llm_service. model_or_tier and
\* effective_until are <<>> when NULL. One row belongs to another provider.
RuleRows ==
    {r \in [provider : Providers,
            model_or_tier : {<<>>} \cup {<<md>> : md \in Models},
            is_active : BOOLEAN,
            effective_from : 0..MaxTime,
            effective_until : {<<>>} \cup {<<t>> : t \in 1..MaxTime}] :
        /\ r.effective_until = <<>> \/ r.effective_from < r.effective_until[1]
        /\ r.provider = "other" =>
               /\ r.is_active /\ r.model_or_tier = <<>>
               /\ r.effective_from = 0 /\ r.effective_until = <<>>}

\* The tables of at most n rows.
RECURSIVE RuleTables(_)
RuleTables(n) ==
    IF n = 0 THEN {{}}
    ELSE LET smaller == RuleTables(n - 1)
         IN  smaller \cup {t \cup {r} : t \in smaller, r \in RuleRows}

\* effective_from <= effective_date and
\* (effective_until IS NULL or effective_until > effective_date)
EffectiveAt(r, effective_date) ==
    /\ r.effective_from <= effective_date
    /\ (r.effective_until = <<>> \/ r.effective_until[1] > effective_date)

\* Sort key of model_or_tier under "DESC NULLS LAST": larger sorts first.
ModelKey(model_or_tier) ==
    IF model_or_tier = <<>> THEN 0
    ELSE IF model_or_tier[1] = "gpt-3.5" THEN 1 ELSE 2

\* ORDER BY model_or_tier DESC NULLS LAST, effective_from DESC: a before b.
SortsBefore(a, b) ==
    \/ ModelKey(a.model_or_tier) > ModelKey(b.model_or_tier)
    \/ /\ ModelKey(a.model_or_tier) = ModelKey(b.model_or_tier)
       /\ a.effective_from > b.effective_from

\* get_active_billing_rule: the rows scalars().first() can return ({} when
\* it returns None; several when the order leaves a tie). The filter on
\* model_or_tier is added only "if model_or_tier".
get_active_billing_rule(rules, provider, model_or_tier, effective_date) ==
    LET rows == {r \in rules :
                    /\ r.provider = provider
                    /\ r.is_active
                    /\ EffectiveAt(r, effective_date)
                    /\ (model_or_tier # <<>> => r.model_or_tier = model_or_tier)}
    IN  {r \in rows : \A q \in rows : ~SortsBefore(q, r)}

\* _calculate_billing: the lookup with the event's model, then, "if not
\* billing_rule", the lookup without a model; effective_date is left at its
\* default, datetime.utcnow().
LookupRule(rules, event, utcnow) ==
    LET specific == get_active_billing_rule(rules, event.service_provider,
                                            event.model, utcnow)
    IN  IF specific # {} THEN specific
        ELSE get_active_billing_rule(rules, event.service_provider, <<>>, utcnow)

\* Events to price: with or without metadata model, stamped at or before the
\* time of processing.
PricingInit ==
    /\ AtRest
    /\ validator_call = NoCall
    /\ tier_call = NoCall
    /\ cost_call = NoCall
    /\ query_call = NoCall
    /\ trend_call = NoCall
    /\ running = [r \in Replicas |-> TRUE]
    /\ \E rules \in RuleTables(MaxRules), model \in {<<>>, <<"gpt-4">>},
          timestamp \in 0..MaxTime, utcnow \in 0..MaxTime :
          /\ timestamp <= utcnow
          /\ pricing_call =
                 [done |-> FALSE, billing_rules |-> rules, utcnow |-> utcnow,
                  event |-> [service_provider |-> "openai", model |-> model,
                             timestamp |-> timestamp]]
    /\ boundaries_call = NoCall
    /\ tracker = NoCall
    /\ isolation_call = NoCall

\* One call of the lookup in _calculate_billing.
SelectRule ==
    /\ ~pricing_call.done
    /\ LET found == LookupRule(pricing_call.billing_rules, pricing_call.event,
                               pricing_call.utcnow)
       IN  \E rule \in IF found = {} THEN {<<>>} ELSE {<<r>> : r \in found} :
               pricing_call' =
                   [done |-> TRUE, billing_rules |-> pricing_call.billing_rules,
                    utcnow |-> pricing_call.utcnow, event |-> pricing_call.event,
                    billing_rule |-> rule]
    /\ UNCHANGED <<usage_events, dead_letter_events, db_usage_events, billing_rule,
                   redis_up, store_up, proc, submitted, upsert_log, gateway_vars,
                   aggregation_vars,
                   validator_call, tier_call, cost_call, query_call, trend_call, running,
                   boundaries_call, tracker, isolation_call>>

PricingSpec == PricingInit /\ [][SelectRule]_vars

\* The rules that match the event's provider, are active and are in force at
\* time t.
Candidates(call, t) ==
    {r \in call.billing_rules :
        /\ r.provider = call.event.service_provider
        /\ r.is_active
        /\ r.effective_from <= t
        /\ (r.effective_until = <<>> \/ t < r.effective_until[1])}

\* Most specific first: the candidates for the event's model if there are
\* any, else the candidates without a model.
Survivors(call, t) ==
    LET specific == {r \in Candidates(call, t) :
                        call.event.model # <<>> /\ r.model_or_tier = call.event.model}
    IN  IF specific # {} THEN specific
        ELSE {r \in Candidates(call, t) : r.model_or_tier = <<>>}

\* C17: among the active rules of the event's provider in force at the time
\* of the lookup, the rule used is one for the event's model if there is
\* one, else one without a model, never one for another model, and among
\* those one with the largest effective_from; no rule is used when there is
\* none of these.
C17_MostSpecificRule ==
    (pricing_call.done /\ pricing_call # NoCall) =>
        LET survivors == Survivors(pricing_call, pricing_call.utcnow)
        IN  IF survivors = {} THEN pricing_call.billing_rule = <<>>
            ELSE /\ pricing_call.billing_rule # <<>>
                 /\ pricing_call.billing_rule[1] \in survivors
                 /\ \A r \in survivors :
                        r.effective_from <= pricing_call.billing_rule[1].effective_from

\* C18: the rule used to price an event is in force at the event's own
\* timestamp: effective_from <= timestamp, and timestamp < effective_until
\* unless effective_until is NULL.
C18_RuleInForceAtEventTime ==
    (pricing_call.done /\ pricing_call # NoCall /\ pricing_call.billing_rule # <<>>) =>
        LET rule == pricing_call.billing_rule[1]
            timestamp == pricing_call.event.timestamp
        IN  /\ rule.effective_from <= timestamp
            /\ (rule.effective_until = <<>> \/ timestamp < rule.effective_until[1])

\* A replica runs the loop over its batch in this step.
ProcessesBatch(r) == proc[r].pc = "process" /\ proc'[r].pc = "store"

\* C19: an event completed while no active rule exists gets billing_info
\* with total_cost 0 and billing_unit unknown, and total_cost 0; and an event
\* is completed with that zero-cost billing_info only when no active rule
\* exists.
C19_ZeroCostOnlyWithoutRule ==
    [][\A r \in Replicas : ProcessesBatch(r) =>
          \A i \in DOMAIN proc'[r].successful_events :
              LET e == proc'[r].successful_events[i]
              IN  e.status = "completed" =>
                      /\ ~billing_rule.is_active =>
                             /\ e.billing_info[1].total_cost = 0
                             /\ e.billing_info[1].billing_unit = "unknown"
                             /\ e.total_cost = <<0>>
                      /\ e.billing_info[1].billing_unit = "unknown" =>
                             ~billing_rule.is_active]_vars

(***************************************************************************)
(* Tiered pricing: shared.utils.billing._apply_tiered_rates.               *)
(***************************************************************************)
MaxUnits == 4
MaxBreak == 3
MaxTiers == 2

TierRates == {1, 3}

\* A tier {from, to, rate}; to = <<>> is "to": null.
Tiers ==
    {t \in [from : 0..MaxBreak,
            to   : {<<>>} \cup {<<n>> : n \in 1..(MaxBreak + 1)},
            rate : TierRates] :
        t.to = <<>> \/ t.from < t.to[1]}

\* Sorted, contiguous schedules of 1..MaxTiers tiers: each tier starts where
\* the one before it ends, and only the last may be unbounded.
TierSchedules ==
    {s \in UNION {[1..n -> Tiers] : n \in 1..MaxTiers} :
        \A i \in 1..(Len(s) - 1) :
            s[i].to # <<>> /\ s[i + 1].from = s[i].to[1]}

Min(a, b) == IF a <= b THEN a ELSE b
Max(a, b) == IF a >= b THEN a ELSE b

\* The for loop of _apply_tiered_rates over the tiers that are left.
RECURSIVE TierLoop(_, _, _, _)
TierLoop(tiers, unit_count, total_cost, remaining_units) ==
    IF tiers = <<>> THEN total_cost
    ELSE LET tier == Head(tiers)
             tier_units == IF tier.to = <<>> THEN remaining_units
                           ELSE Min(remaining_units, tier.to[1] - tier.from)
         IN  IF remaining_units <= 0 THEN total_cost
             ELSE IF unit_count <= tier.from
             THEN TierLoop(Tail(tiers), unit_count, total_cost, remaining_units)
             ELSE TierLoop(Tail(tiers), unit_count,
                           total_cost + tier_units * tier.rate,
                           remaining_units - tier_units)

_apply_tiered_rates(unit_count, tiers, base_rate) ==
    IF tiers = <<>> THEN unit_count * base_rate
    ELSE TierLoop(tiers, unit_count, 0, unit_count)

TierInit ==
    /\ AtRest
    /\ validator_call = NoCall
    /\ pricing_call = NoCall
    /\ tier_call \in [done : {FALSE}, unit_count : 0..MaxUnits,
                      tiers : TierSchedules, rate_per_unit : {2}]
    /\ cost_call = NoCall
    /\ query_call = NoCall
    /\ trend_call = NoCall
    /\ running = [r \in Replicas |-> TRUE]
    /\ boundaries_call = NoCall
    /\ tracker = NoCall
    /\ isolation_call = NoCall

\* calculate_event_cost: "if tiered_rates: total_cost = _apply_tiered_rates(
\* unit_count, tiered_rates, rate_per_unit)".
ApplyTiers ==
    /\ ~tier_call.done
    /\ tier_call' =
           [done |-> TRUE, unit_count |-> tier_call.unit_count,
            tiers |-> tier_call.tiers, rate_per_unit |-> tier_call.rate_per_unit,
            total_cost |-> _apply_tiered_rates(tier_call.unit_count, tier_call.tiers,
                                               tier_call.rate_per_unit)]
    /\ UNCHANGED <<usage_events, dead_letter_events, db_usage_events, billing_rule,
                   redis_up, store_up, proc, submitted, upsert_log, gateway_vars,
                   aggregation_vars,
                   validator_call, pricing_call, cost_call, query_call, trend_call, running,
                   boundaries_call, tracker, isolation_call>>

TierSpec == TierInit /\ [][ApplyTiers]_vars

\* Width of [max(from, 0), min(to, unit_count)), 0 when it is empty.
CoveredWidth(tier, unit_count) ==
    LET lo == Max(tier.from, 0)
        hi == IF tier.to = <<>> THEN unit_count ELSE Min(tier.to[1], unit_count)
    IN  Max(hi - lo, 0)

RECURSIVE PiecewiseCost(_, _)
PiecewiseCost(tiers, unit_count) ==
    IF tiers = <<>> THEN 0
    ELSE CoveredWidth(Head(tiers), unit_count) * Head(tiers).rate
             + PiecewiseCost(Tail(tiers), unit_count)

\* C20: for every sorted contiguous tier schedule and every unit_count >= 0
\* the tiered cost is the sum over the tiers of the width of
\* [max(from, 0), min(to, unit_count)) times the tier's rate.
C20_TieredCostPiecewise ==
    (tier_call.done /\ tier_call # NoCall) =>
        tier_call.total_cost = PiecewiseCost(tier_call.tiers, tier_call.unit_count)

(***************************************************************************)
(* Cost of one event: shared.utils.billing.calculate_event_cost.           *)
(* Money is counted in units of 0.0000001 (a tenth of the sixth decimal),  *)
(* so that round(x, 6) has digits to drop.                                 *)
(***************************************************************************)
ServiceTypes == {"llm_service", "document_processor", "api_service", "custom"}
BillingUnits == {"tokens", "requests", "pages", "bytes", "minutes", "custom"}

\* Python's None where a number is expected, and the TypeError of arithmetic
\* on it; metric values are never negative.
None == -1
TypeError == -2

\* A metrics dict: <<>> is "key absent", <<None>> is "key -> None".
NoMetrics ==
    [total_tokens |-> <<>>, pages_processed |-> <<>>, file_size_bytes |-> <<>>,
     request_count |-> <<>>, payload_size_bytes |-> <<>>,
     response_size_bytes |-> <<>>, response_time_ms |-> <<>>]

MetricKeys == DOMAIN NoMetrics

\* The metrics of the events whose cost is computed, per service type.
\* to_event_dict writes None for the optional metrics a client left out.
MetricsOf(service_type) ==
    CASE service_type = "llm_service" ->
             {[NoMetrics EXCEPT !.total_tokens = t] :
                 t \in {<<>>, <<0>>, <<1>>, <<3>>, <<1500>>}}
      [] service_type = "document_processor" ->
             {[NoMetrics EXCEPT !.pages_processed = p, !.file_size_bytes = b] :
                 p \in {<<1>>, <<2>>}, b \in {<<>>, <<None>>, <<3>>}}
      [] service_type = "api_service" ->
             {[NoMetrics EXCEPT !.request_count = c, !.payload_size_bytes = p,
                                !.response_size_bytes = <<2>>,
                                !.response_time_ms = ms] :
                 c \in {<<>>, <<2>>}, p \in {<<None>>, <<1>>},
                 ms \in {<<None>>, <<60000>>, <<120000>>}}
      [] OTHER -> {NoMetrics}

\* rule_dict of _calculate_billing. rate_per_unit 4 is 0.0000004 and 300 is
\* 0.00003; minimum_charge 1000 is 0.0001; tiered_rates <<>> is None,
\* <<tiers>> is {"tiers": tiers}.
CostRules ==
    [billing_unit       : BillingUnits,
     rate_per_unit      : {4, 300},
     calculation_method : {"multiply", "sum", "custom"},
     minimum_charge     : {<<>>, <<1000>>},
     tiered_rates       : {<<>>, << <<>> >>,
                           << <<[from |-> 0, to |-> <<2>>, rate |-> 30],
                                [from |-> 2, to |-> <<>>, rate |-> 4]>> >>}]

\* dict.get(key, default): the value under the key, None included.
MetricGet(metrics, key, default) == Get(metrics[key], default)

\* Variant: every event counts as one request.
_calculate_unit_count_one(service_type, billing_unit, metrics) == 1

_calculate_unit_count(service_type, billing_unit, metrics) ==
    CASE service_type = "llm_service" /\ billing_unit = "tokens" ->
             MetricGet(metrics, "total_tokens", 0)
      [] service_type = "llm_service" /\ billing_unit = "requests" -> 1
      [] service_type = "document_processor" /\ billing_unit = "pages" ->
             MetricGet(metrics, "pages_processed", 0)
      [] service_type = "document_processor" /\ billing_unit = "bytes" ->
             MetricGet(metrics, "file_size_bytes", 0)
      [] service_type = "document_processor" /\ billing_unit = "requests" -> 1
      [] service_type = "api_service" /\ billing_unit = "requests" ->
             MetricGet(metrics, "request_count", 1)
      [] service_type = "api_service" /\ billing_unit = "bytes" ->
             LET p == MetricGet(metrics, "payload_size_bytes", 0)
                 r == MetricGet(metrics, "response_size_bytes", 0)
             IN  IF p = None \/ r = None THEN TypeError ELSE p + r
      [] service_type = "api_service" /\ billing_unit = "minutes" ->
             LET response_time_ms == MetricGet(metrics, "response_time_ms", 0)
             IN  IF response_time_ms = None THEN TypeError
                 ELSE response_time_ms \div 60000
      [] OTHER -> 1

\* sum(metrics.values()): TypeError as soon as one value is None.
RECURSIVE SumValues(_, _)
SumValues(metrics, keys) ==
    IF keys = {} THEN 0
    ELSE LET k == CHOOSE x \in keys : TRUE
             rest == SumValues(metrics, keys \ {k})
         IN  IF metrics[k] = <<>> THEN rest
             ELSE IF metrics[k] = <<None>> \/ rest = TypeError THEN TypeError
             ELSE metrics[k][1] + rest

\* round(x, 6) for x >= 0: the nearest multiple of 0.000001, ties to even.
Round6(x) ==
    LET q == x \div 10
        r == x % 10
    IN  IF r < 5 THEN q * 10
        ELSE IF r > 5 THEN (q + 1) * 10
        ELSE IF q % 2 = 0 THEN q * 10 ELSE (q + 1) * 10

\* calculate_event_cost for a rule that was found. [raises |-> TRUE] stands
\* for the TypeError of arithmetic on None.
calculate_event_cost_with_rule(service_type, metrics, rule) ==
    LET unit_count == _calculate_unit_count(service_type, rule.billing_unit, metrics)
        factor == IF rule.calculation_method = "sum"
                  THEN SumValues(metrics, MetricKeys)
                  ELSE unit_count
    IN  IF unit_count \in {None, TypeError} \/ factor = TypeError
        THEN [raises |-> TRUE]
        ELSE LET base_cost == factor * rule.rate_per_unit
                 with_minimum == Max(base_cost, Get(rule.minimum_charge, 0))
                 total_cost ==
                     IF rule.tiered_rates # <<>>
                     THEN _apply_tiered_rates(unit_count, rule.tiered_rates[1],
                                              rule.rate_per_unit)
                     ELSE with_minimum
             IN  [raises             |-> FALSE,
                  total_cost         |-> Round6(total_cost),
                  billing_unit       |-> rule.billing_unit,
                  unit_count         |-> unit_count,
                  rate_per_unit      |-> rule.rate_per_unit,
                  calculation_method |-> rule.calculation_method,
                  base_cost          |-> Round6(base_cost),
                  minimum_charge     |-> rule.minimum_charge]

CostInit ==
    /\ AtRest
    /\ validator_call = NoCall
    /\ pricing_call = NoCall
    /\ tier_call = NoCall
    /\ \E service_type \in ServiceTypes :
         \E metrics \in MetricsOf(service_type) :
           \E rule \in CostRules :
             cost_call = [done |-> FALSE, service_type |-> service_type,
                          metrics |-> metrics, billing_rule |-> rule]
    /\ query_call = NoCall
    /\ trend_call = NoCall
    /\ running = [r \in Replicas |-> TRUE]
    /\ boundaries_call = NoCall
    /\ tracker = NoCall
    /\ isolation_call = NoCall

\* billing_info = calculate_event_cost(event, rule_dict)
CalculateCost ==
    /\ ~cost_call.done
    /\ cost_call' =
           [done |-> TRUE, service_type |-> cost_call.service_type,
            metrics |-> cost_call.metrics, billing_rule |-> cost_call.billing_rule,
            billing_info |->
                calculate_event_cost_with_rule(cost_call.service_type,
                                               cost_call.metrics,
                                               cost_call.billing_rule)]
    /\ UNCHANGED <<usage_events, dead_letter_events, db_usage_events, billing_rule,
                   redis_up, store_up, proc, submitted, upsert_log, gateway_vars,
                   aggregation_vars,
                   validator_call, pricing_call, tier_call, query_call, trend_call, running,
                   boundaries_call, tracker, isolation_call>>

CostSpec == CostInit /\ [][CalculateCost]_vars

\* The call returned a billing_info.
Costed == cost_call.done /\ cost_call # NoCall /\ ~cost_call.billing_info.raises

\* C21: whenever the rule has a minimum_charge, the total_cost returned is
\* max(cost, minimum_charge), hence never below minimum_charge, for flat and
\* for tiered rules alike.
C21_MinimumChargeApplied ==
    (Costed /\ cost_call.billing_rule.minimum_charge # <<>>) =>
        cost_call.billing_info.total_cost >= cost_call.billing_rule.minimum_charge[1]

\* The rule of the claim: multiply, no tiers, no minimum charge.
FlatMultiplyRule(rule) ==
    /\ rule.calculation_method = "multiply"
    /\ rule.tiered_rates = <<>> \/ rule.tiered_rates = << <<>> >>
    /\ rule.minimum_charge = <<>>

\* x is y rounded to 6 decimal places.
RoundedTo6(x, y) == x % 10 = 0 /\ x - y \in -5..5

CountedMetrics(service_type, billing_unit) ==
    CASE service_type = "llm_service" /\ billing_unit = "tokens" -> {"total_tokens"}
      [] service_type = "document_processor" /\ billing_unit = "pages" ->
             {"pages_processed"}
      [] service_type = "document_processor" /\ billing_unit = "bytes" ->
             {"file_size_bytes"}
      [] service_type = "api_service" /\ billing_unit = "requests" ->
             {"request_count"}
      [] service_type = "api_service" /\ billing_unit = "bytes" ->
             {"payload_size_bytes", "response_size_bytes"}
      [] service_type = "api_service" /\ billing_unit = "minutes" ->
             {"response_time_ms"}
      [] OTHER -> {}

\* Every counted metric is a number (request_count may be absent).
CountedAreNumbers(service_type, billing_unit, metrics) ==
    \A k \in CountedMetrics(service_type, billing_unit) :
        \/ k = "request_count" /\ metrics[k] = <<>>
        \/ metrics[k] # <<>> /\ metrics[k][1] >= 0

MaxClock == 4
MaxStored == 2

\* Client timestamps of the stored events: in the first and in the second hour.
EventTimes == {1, 2}

Tenants == {"t1", "t2"}
Users == {"u1", "u2"}

\* timedelta(hours=1), timedelta(days=1), timedelta(weeks=1).
PeriodLength(period) ==
    CASE period = "hour" -> 2
      [] period = "day" -> 4
      [] period = "week" -> 7 * 4

\* The calendar, scaled down: twelve months of 2 or 3 days, no leap years;
\* day 0 is the first day of month 1 of year 0 and a Monday.
MonthDays == <<3, 2, 3, 2, 3, 2, 3, 3, 2, 3, 2, 3>>
RECURSIVE DaysBefore(_)
DaysBefore(month) ==
    IF month = 1 THEN 0 ELSE DaysBefore(month - 1) + MonthDays[month - 1]
YearDays == DaysBefore(12) + MonthDays[12]

\* year, month and day of a datetime, and the datetime of a date at 00:00.
YearOf(t) == (t \div PeriodLength("day")) \div YearDays
MonthOf(t) ==
    LET d == (t \div PeriodLength("day")) % YearDays
    IN  CHOOSE month \in 1..12 :
            d \in DaysBefore(month)..(DaysBefore(month) + MonthDays[month] - 1)
DayOfMonth(t) ==
    ((t \div PeriodLength("day")) % YearDays) - DaysBefore(MonthOf(t)) + 1
Midnight(year, month, day) ==
    (year * YearDays + DaysBefore(month) + day - 1) * PeriodLength("day")

\* datetime.replace(year=..., month=...): the same day of the month and
\* time of day in another month; ValueError when that month has no such day.
ValueError == -3
replace(t, year, month) ==
    IF DayOfMonth(t) > MonthDays[month] THEN ValueError
    ELSE Midnight(year, month, DayOfMonth(t)) + (t % PeriodLength("day"))

\* datetime.weekday(): 0 is Monday.
weekday(t) == (t \div PeriodLength("day")) % 7

\* The replay windows of _run_all_aggregations: 25 hours and 8 days, scaled
\* down to 2 hours and 1 day.
hours_back == 2
days_back == 1
\* The replay window of the week pass: timedelta(weeks=5).
weeks_back == 5

\* datetime.replace(minute=0, ...): the start of the period that holds t.
FloorTo(t, period) == (t \div PeriodLength(period)) * PeriodLength(period)

\* <<start_time, end_time>> passed to _aggregate_usage_data.
ReplayWindow(period, now) ==
    CASE period = "hour" ->
             <<FloorTo(now, "hour") - hours_back * PeriodLength("hour"),
               FloorTo(now, "hour")>>
      [] period = "day" ->
             <<FloorTo(now, "day") - days_back * PeriodLength("day"),
               FloorTo(now, "day")>>
      [] period = "week" ->
             LET week_end == FloorTo(now, "day")
                 week_start == week_end - weekday(week_end) * PeriodLength("day")
             IN  <<week_start - weeks_back * PeriodLength("week"), week_end>>
      [] period = "month" ->
             LET month_end == Midnight(YearOf(now), MonthOf(now), 1)
                 start_month == replace(month_end, YearOf(month_end) - 1,
                                        MonthOf(month_end))
             IN  <<IF MonthOf(month_end) > 1
                   THEN replace(start_month, YearOf(start_month),
                                MonthOf(month_end) - 1)
                   ELSE replace(start_month, YearOf(start_month) - 1, 12),
                   month_end>>

\* current_end of _get_period_boundaries.
current_end(period, current_start) ==
    IF period = "month"
    THEN IF MonthOf(current_start) = 12
         THEN replace(current_start, YearOf(current_start) + 1, 1)
         ELSE replace(current_start, YearOf(current_start),
                      MonthOf(current_start) + 1)
    ELSE current_start + PeriodLength(period)

\* _get_period_boundaries without min(current_end, end_time).
RECURSIVE _get_period_boundaries_untruncated(_, _, _)
_get_period_boundaries_untruncated(period, start_time, end_time) ==
    IF start_time < end_time
    THEN <<<<start_time, current_end(period, start_time)>>>>
             \o _get_period_boundaries_untruncated(
                    period, current_end(period, start_time), end_time)
    ELSE <<>>

\* _get_period_boundaries: tiles of the window, the last one cut at end_time.
\* A ValueError of replace ends the call; it is returned as the last tile.
RECURSIVE _get_period_boundaries(_, _, _)
_get_period_boundaries(period, start_time, end_time) ==
    IF start_time < end_time
    THEN LET next == current_end(period, start_time)
         IN  IF next = ValueError THEN <<<<ValueError, ValueError>>>>
             ELSE <<<<start_time, Min(next, end_time)>>>>
                      \o _get_period_boundaries(period, next, end_time)
    ELSE <<>>

\* A row of usage_events as the aggregator reads it: the columns of RowOf
\* and the dimensions of the event.
StoredRow(id, tenant_id, user_id, timestamp, status, total_cost) ==
    RowOf([_enrich_event(FreshEvent(id, "good")) EXCEPT
               !.status = status,
               !.total_cost = IF status = "completed" THEN <<total_cost>> ELSE <<>>])
        @@ [tenant_id |-> tenant_id, user_id |-> user_id,
            service_provider |-> "openai", timestamp |-> timestamp]

\* The element of a one-element set: {f(r) : r \in {call}} computes the
\* call once, however often f uses its result.
TheOne(S) == CHOOSE x \in S : TRUE

\* Some order of the elements of a set (a query without ORDER BY).
RECURSIVE SetToSeq(_)
SetToSeq(S) ==
    IF S = {} THEN <<>>
    ELSE LET x == CHOOSE y \in S : TRUE
         IN  <<x>> \o SetToSeq(S \ {x})

\* The WHERE clause shared by the queries of a tenant-period; a dimension
\* that is None adds no condition.
Matching(events, key) ==
    {i \in 1..Len(events) :
        /\ events[i].tenant_id = key.tenant_id
        /\ events[i].timestamp >= key.period_start
        /\ events[i].timestamp < key.period_end
        /\ events[i].status = "completed"
        /\ key.service_type # "NULL" => events[i].service_type = key.service_type
        /\ key.service_provider # "NULL" =>
               events[i].service_provider = key.service_provider
        /\ key.user_id # "NULL" => events[i].user_id = key.user_id}

\* func.sum(UsageEvent.total_cost): NULL (<<>>) when no row has a value.
RECURSIVE SumTotalCost(_, _)
SumTotalCost(events, indexes) ==
    IF indexes = {} THEN <<>>
    ELSE LET i == CHOOSE j \in indexes : TRUE
             rest == SumTotalCost(events, indexes \ {i})
         IN  IF events[i].total_cost = <<>> THEN rest
             ELSE <<events[i].total_cost[1] + Get(rest, 0)>>

\* The composite identity of uq_usage_aggregates_unique.
SameIdentity(a, b) ==
    /\ a.tenant_id = b.tenant_id
    /\ a.period_start = b.period_start
    /\ a.period_type = b.period_type
    /\ a.service_type = b.service_type
    /\ a.service_provider = b.service_provider
    /\ a.user_id = b.user_id

\* A unique constraint treats NULLs as distinct: two rows violate it only
\* when they agree on all six columns and none of the values is NULL.
ViolatesUnique(a, b) ==
    /\ SameIdentity(a, b)
    /\ a.service_type # "NULL"
    /\ a.service_provider # "NULL"
    /\ a.user_id # "NULL"

\* INSERT ... ON CONFLICT ON CONSTRAINT uq_usage_aggregates_unique DO UPDATE,
\* then the SELECT of the upserted row (None dimensions compare with IS NULL)
\* and scalar_one(), which raises unless exactly one row comes back.
upsert_aggregate(table, aggregate_data) ==
    LET conflicts == {i \in 1..Len(table) : ViolatesUnique(table[i], aggregate_data)}
        after == IF conflicts = {} THEN Append(table, aggregate_data)
                 ELSE [i \in 1..Len(table) |->
                          IF i \in conflicts
                          THEN [table[i] EXCEPT
                                   !.event_count  = aggregate_data.event_count,
                                   !.unique_users = aggregate_data.unique_users,
                                   !.total_cost   = aggregate_data.total_cost]
                          ELSE table[i]]
        fetched == {i \in 1..Len(after) : SameIdentity(after[i], aggregate_data)}
    IN  [raised |-> Cardinality(fetched) # 1, table |-> after]

\* key: the identity and period_end. Nothing is written for a count of 0.
_create_aggregate(table, events, key) ==
    LET rows == Matching(events, key)
        event_count == Cardinality(rows)
        sum == SumTotalCost(events, rows)
        aggregate_data ==
            [tenant_id        |-> key.tenant_id,
             period_start     |-> key.period_start,
             period_end       |-> key.period_end,
             period_type      |-> key.period_type,
             service_type     |-> key.service_type,
             service_provider |-> key.service_provider,
             user_id          |-> key.user_id,
             event_count      |-> event_count,
             unique_users     |-> Cardinality({events[i].user_id : i \in rows}),
             \* float(row.total_cost) if row.total_cost else None
             total_cost       |-> IF Get(sum, 0) = 0 THEN <<>> ELSE sum]
    IN  IF event_count > 0 THEN upsert_aggregate(table, aggregate_data)
        ELSE [raised |-> FALSE, table |-> table]

AggregateKey(tenant_id, period, bounds, service_type, service_provider, user_id) ==
    [tenant_id |-> tenant_id, period_type |-> period,
     period_start |-> bounds[1], period_end |-> bounds[2],
     service_type |-> service_type, service_provider |-> service_provider,
     user_id |-> user_id]

\* _aggregate_tenant_period: the _create_aggregate calls in order. The
\* overall row, each service type and its providers, then the users (the
\* limit of 100 users is never reached here).
TenantPeriodKeys(events, tenant_id, period, bounds) ==
    LET all == Matching(events, AggregateKey(tenant_id, period, bounds,
                                             "NULL", "NULL", "NULL"))
        service_types == SetToSeq({events[i].service_type : i \in all})
        providers(st) ==
            SetToSeq({events[i].service_provider :
                         i \in {j \in all : events[j].service_type = st}})
        top_users == SetToSeq({events[i].user_id : i \in all})
        ByService[n \in 0..Len(service_types)] ==
            IF n = 0 THEN <<>>
            ELSE LET st == service_types[n]
                 IN  ByService[n - 1]
                         \o <<AggregateKey(tenant_id, period, bounds, st, "NULL", "NULL")>>
                         \o [k \in 1..Len(providers(st)) |->
                                AggregateKey(tenant_id, period, bounds, st,
                                             providers(st)[k], "NULL")]
    IN  <<AggregateKey(tenant_id, period, bounds, "NULL", "NULL", "NULL")>>
            \o ByService[Len(service_types)]
            \o [k \in 1..Len(top_users) |->
                   AggregateKey(tenant_id, period, bounds, "NULL", "NULL", top_users[k])]

\* _aggregate_tenant_data: every period of the window, in order.
RECURSIVE TenantKeys(_, _, _, _)
TenantKeys(events, tenant_id, period, periods) ==
    IF periods = <<>> THEN <<>>
    ELSE TenantPeriodKeys(events, tenant_id, period, Head(periods))
             \o TenantKeys(events, tenant_id, period, Tail(periods))

\* The loop over the tenants inside one session. failing names a tenant
\* during whose queries the database raises ("none": no such error).
RECURSIVE RunTenants(_, _, _, _, _, _)
RECURSIVE RunKeys(_, _, _)
RunKeys(table, events, keys) ==
    IF keys = <<>> THEN [raised |-> FALSE, table |-> table]
    ELSE TheOne({IF r.raised THEN r ELSE RunKeys(r.table, events, Tail(keys)) :
                    r \in {_create_aggregate(table, events, Head(keys))}})

RunTenants(table, events, tenants, period, periods, failing) ==
    IF tenants = <<>> THEN [error |-> "none", table |-> table]
    ELSE IF Head(tenants) = failing
    THEN [error |-> "OperationalError", table |-> table]
    ELSE TheOne({IF r.raised
                 THEN [error |-> "MultipleResultsFound", table |-> r.table]
                 ELSE RunTenants(r.table, events, Tail(tenants), period, periods,
                                 failing) :
                    r \in {RunKeys(table, events,
                                   TenantKeys(events, Head(tenants), period,
                                              periods))}})

\* Tenants with completed events in the window.
WindowTenants(events, start_time, end_time) ==
    {events[i].tenant_id :
        i \in {j \in 1..Len(events) : /\ events[j].timestamp >= start_time
                                      /\ events[j].timestamp < end_time
                                      /\ events[j].status = "completed"}}

\* _aggregate_usage_data: one session for the whole pass. get_session
\* commits when the block ends and rolls back when it raises; the exception
\* is then logged. order lists the tenants as the query returned them.
_aggregate_usage_data(table, events, period, now, order, failing) ==
    LET window == ReplayWindow(period, now)
        found == WindowTenants(events, window[1], window[2])
        tenants == SelectSeq(order, LAMBDA t : t \in found)
    IN  TheOne({[error |-> r.error, session |-> r.table,
                 table |-> IF r.error # "none" THEN table ELSE r.table] :
                   r \in {RunTenants(table, events, tenants, period,
                                     _get_period_boundaries(period, window[1],
                                                            window[2]),
                                     failing)}})

PeriodOrder == <<"hour", "day">>

\* Orders in which a query can return the tenants.
TenantOrders == {<<"t1", "t2">>, <<"t2", "t1">>}

\* The passes of _run_all_aggregations, each in its own session, from
\* the n-th on. failing is <<period, tenant>>: the pass and the tenant that
\* meet a database error. Returns, per period type, what the pass did.
RECURSIVE RunPasses(_, _, _, _, _, _)
RunPasses(n, table, events, now, order, failing) ==
    IF n > Len(PeriodOrder) THEN [table |-> table, passes |-> <<>>]
    ELSE TheOne({TheOne({[table |-> rest.table, passes |-> <<r>> \o rest.passes] :
                            rest \in {RunPasses(n + 1, r.table, events, now, order,
                                                failing)}}) :
                    r \in {_aggregate_usage_data(table, events, PeriodOrder[n], now,
                                                 order,
                                                 IF failing[1] = PeriodOrder[n]
                                                 THEN failing[2] ELSE "none")}})

PassIndex(period) == CHOOSE n \in 1..Len(PeriodOrder) : PeriodOrder[n] = period

(***************************************************************************)
(* AggregationService._generate_billing_summaries                          *)
(***************************************************************************)
\* The WHERE clause of the billing queries: completed events of the month
\* with a total_cost, of one tenant or (tenant_id "NULL") of every tenant.
Billable(events, tenant_id, month_start, month_end) ==
    {i \in 1..Len(events) :
        /\ tenant_id # "NULL" => events[i].tenant_id = tenant_id
        /\ events[i].timestamp >= month_start
        /\ events[i].timestamp < month_end
        /\ events[i].status = "completed"
        /\ events[i].total_cost # <<>>}

\* summary_data: the sums of the three queries. cost_by_service is keyed by
\* <<service_type, service_provider>>, cost_by_user by user_id.
summary_data(events, tenant_id, month_start, month_end) ==
    LET billable == Billable(events, tenant_id, month_start, month_end)
        services == {<<events[i].service_type, events[i].service_provider>> :
                        i \in billable}
        users    == {events[i].user_id : i \in billable}
    IN  [tenant_id       |-> tenant_id,
         billing_year    |-> YearOf(month_start),
         billing_month   |-> MonthOf(month_start),
         total_cost      |-> Get(SumTotalCost(events, billable), 0),
         cost_by_service |->
             [k \in services |->
                 Get(SumTotalCost(events,
                        {i \in billable :
                            <<events[i].service_type,
                              events[i].service_provider>> = k}), 0)],
         cost_by_user    |->
             [u \in users |->
                 Get(SumTotalCost(events,
                        {i \in billable : events[i].user_id = u}), 0)],
         total_events    |-> Cardinality(billable),
         active_users    |-> Cardinality(users),
         is_finalized    |-> FALSE]

\* The rows that conflict with the data on uq_billing_summary_unique.
SummaryConflicts(table, data) ==
    {i \in 1..Len(table) :
        /\ table[i].tenant_id = data.tenant_id
        /\ table[i].billing_year = data.billing_year
        /\ table[i].billing_month = data.billing_month}

\* The upsert with every column of the conflicting row replaced.
upsert_billing_summary_replace_row(table, data, now) ==
    LET row == data @@ [finalized_at |-> <<>>, created_at |-> now,
                        updated_at |-> now]
    IN  IF SummaryConflicts(table, data) = {} THEN Append(table, row)
        ELSE [i \in 1..Len(table) |->
                 IF i \in SummaryConflicts(table, data) THEN row ELSE table[i]]

\* insert(BillingSummary).values(**summary_data).on_conflict_do_update(
\*     constraint='uq_billing_summary_unique', set_={...}); created_at and
\* updated_at of a new row are the server default now().
upsert_billing_summary(table, data, now) ==
    IF SummaryConflicts(table, data) = {}
    THEN Append(table, data @@ [finalized_at |-> <<>>, created_at |-> now,
                                updated_at |-> now])
    ELSE [i \in 1..Len(table) |->
             IF i \in SummaryConflicts(table, data)
             THEN [table[i] EXCEPT
                      !.total_cost      = data.total_cost,
                      !.cost_by_service = data.cost_by_service,
                      !.cost_by_user    = data.cost_by_user,
                      !.total_events    = data.total_events,
                      !.active_users    = data.active_users,
                      !.updated_at      = now]
             ELSE table[i]]

\* _generate_tenant_billing_summary: nothing is written when the month has
\* no billable event of the tenant or their costs sum to 0.
_generate_tenant_billing_summary(table, events, tenant_id, month_start, month_end, now) ==
    TheOne({IF data.total_events = 0 \/ data.total_cost = 0 THEN table
            ELSE upsert_billing_summary(table, data, now) :
               data \in {summary_data(events, tenant_id, month_start,
                                      month_end)}})

\* The loop of _generate_month_billing_summary over the tenants with
\* billable events in the month; each tenant's summary is committed on its
\* own. failing is the tenant whose statement raises ("none": no one's): the
\* exception ends the month's loop and is logged.
RECURSIVE SummariseTenants(_, _, _, _, _, _, _)
SummariseTenants(table, events, tenants, month_start, month_end, now, failing) ==
    IF tenants = <<>> \/ Head(tenants) = failing THEN table
    ELSE SummariseTenants(
             _generate_tenant_billing_summary(table, events, Head(tenants),
                                              month_start, month_end, now),
             events, Tail(tenants), month_start, month_end, now, failing)

_generate_month_billing_summary(table, events, month_start, month_end, now, order, failing) ==
    SummariseTenants(
        table, events,
        SelectSeq(order,
                  LAMBDA t : \E i \in Billable(events, "NULL", month_start,
                                                month_end) :
                                 events[i].tenant_id = t),
        month_start, month_end, now, failing)

\* now.replace(day=1, hour=0, ...) and the first day of the month before.
current_month_start(now) == Midnight(YearOf(now), MonthOf(now), 1)
prev_month_start(now) ==
    IF MonthOf(now) = 1 THEN Midnight(YearOf(now) - 1, 12, 1)
    ELSE Midnight(YearOf(now), MonthOf(now) - 1, 1)

\* _generate_billing_summaries: the previous month, then the current month
\* up to now. failing is <<month, tenant>>: 1 the previous, 2 the current.
_generate_billing_summaries(table, events, now, order, failing) ==
    _generate_month_billing_summary(
        _generate_month_billing_summary(
            table, events, prev_month_start(now), current_month_start(now),
            now, order, IF failing[1] = 1 THEN failing[2] ELSE "none"),
        events, current_month_start(now), now, now, order,
        IF failing[1] = 2 THEN failing[2] ELSE "none")

\* One aggregation cycle: the passes, then the billing summaries.
RunAllAggregations ==
    /\ \E order \in TenantOrders,
          failing \in {<<"none", "none">>} \cup (AggregationPeriods \X Tenants) :
         LET r == RunPasses(1, db_usage_aggregates, db_usage_events, clock,
                            order, failing)
         IN  /\ db_usage_aggregates' = r.table
             /\ agg_session' = [p \in AggregationPeriods |->
                                   r.passes[PassIndex(p)].session]
             /\ agg_error' = [p \in AggregationPeriods |->
                                 r.passes[PassIndex(p)].error]
             /\ db_billing_summaries' =
                    _generate_billing_summaries(db_billing_summaries,
                                                db_usage_events, clock, order,
                                                <<0, "none">>)
    /\ UNCHANGED <<usage_events, dead_letter_events, db_usage_events, billing_rule,
                   redis_up, store_up, proc, submitted, upsert_log, gateway_vars,
                   call_vars, clock>>

\* The processor (or the fallback of the gateway) stores one more event, on
\* time or late: timestamp is the client's. Tenant and user names are
\* interchangeable, so the first event is one of t1 and u1.
StoreEvent ==
    /\ Len(db_usage_events) < MaxStored
    /\ \E tenant_id \in Tenants, user_id \in Users, timestamp \in EventTimes,
          status \in {"completed", "pending"}, total_cost \in {0, 2} :
         /\ status = "pending" => total_cost = 0
         /\ db_usage_events = <<>> => tenant_id = "t1" /\ user_id = "u1"
         /\ db_usage_events' =
                Append(db_usage_events,
                       StoredRow(IF db_usage_events = <<>> THEN "e1" ELSE "e2",
                                 tenant_id, user_id, timestamp, status, total_cost))
    /\ UNCHANGED <<usage_events, dead_letter_events, billing_rule, redis_up,
                   store_up, proc, submitted, upsert_log, gateway_vars, call_vars,
                   aggregation_vars>>

\* Half an hour passes.
Tick ==
    /\ clock < MaxClock
    /\ clock' = clock + 1
    /\ UNCHANGED <<usage_events, dead_letter_events, db_usage_events, billing_rule,
                   redis_up, store_up, proc, submitted, upsert_log, gateway_vars,
                   call_vars, db_usage_aggregates, agg_session, agg_error,
                   db_billing_summaries>>

AggregationInit ==
    /\ ProcessorInit
    /\ billing_rule \in [is_active : {TRUE}, rate_per_unit : Rates]
    /\ redis_up = TRUE
    /\ store_up = TRUE
    /\ GatewayInit(FALSE)
    /\ NoCalls
    /\ NoAggregation

AggregationNext ==
    \/ RunAllAggregations
    \/ StoreEvent
    \/ Tick

AggregationSpec == AggregationInit /\ [][AggregationNext]_vars

\* The overall rows of a tenant-period in a table.
OverallRows(table, tenant_id, period, period_start) ==
    {i \in 1..Len(table) :
        SameIdentity(table[i],
                     AggregateKey(tenant_id, period, <<period_start, 0>>,
                                  "NULL", "NULL", "NULL"))}

\* The period [period_start, period_end) of the window's tiling.
WindowPeriods(period, now) ==
    LET window == ReplayWindow(period, now)
        periods == _get_period_boundaries(period, window[1], window[2])
    IN  {periods[k] : k \in 1..Len(periods)}

\* The overall row of the tenant-period exists in the table and carries the
\* count and the summed cost of the tenant's completed events in the period
\* (a NULL total_cost reads as 0).
OverallConsistent(table, events, tenant_id, period, bounds) ==
    LET completed == Matching(events, AggregateKey(tenant_id, period, bounds,
                                                   "NULL", "NULL", "NULL"))
        rows == OverallRows(table, tenant_id, period, bounds[1])
    IN  completed # {} =>
            /\ rows # {}
            /\ \A i \in rows :
                   /\ table[i].event_count = Cardinality(completed)
                   /\ Get(table[i].total_cost, 0) =
                          Get(SumTotalCost(events, completed), 0)

\* C23: after every aggregation cycle, for any tenant-period inside the
\* replay window, the overall aggregate row has event_count equal to the
\* number of completed events of the tenant in the period and total_cost
\* equal to the sum of their total_costs, also when events were backfilled
\* into a period already aggregated. (Passes that met a database error are
\* left aside.)
C23_AggregateConsistency ==
    [][RunAllAggregations =>
          \A period \in AggregationPeriods, tenant_id \in Tenants :
              \A bounds \in WindowPeriods(period, clock) :
                  agg_error'[period] # "OperationalError" =>
                      OverallConsistent(db_usage_aggregates', db_usage_events,
                                        tenant_id, period, bounds)
      ]_vars

\* No two rows of the table share a composite identity.
OneRowPerIdentity(table) ==
    \A i, j \in 1..Len(table) : SameIdentity(table[i], table[j]) => i = j

C25_TenantFailureIsolated ==
    [][RunAllAggregations =>
          \A period \in AggregationPeriods :
              agg_error'[period] # "none" =>
                  \E culprit \in Tenants :
                      \A tenant_id \in Tenants \ {culprit} :
                          \A bounds \in WindowPeriods(period, clock) :
                              OverallConsistent(db_usage_aggregates', db_usage_events,
                                                tenant_id, period, bounds)
      ]_vars

(***************************************************************************)
(* GET /api/v1/usage: the filtered read of usage_events, as the query      *)
(* service (services/query_service) and the gateway serve it.              *)
(***************************************************************************)
MaxLimit == 2
MaxOffset == 1

\* datetime.utcnow() of the handler, and timedelta(days=30) on the scale of
\* the timestamps below: every stored timestamp lies within the default range.
QueryNow == 3
default_days == 3

QueryEventIds == <<"e1", "e2", "e3">>

\* What one stored row carries besides its identity and its timestamp.
RowKinds ==
    {[service_type |-> "llm_service", service_provider |-> "openai",
      user_id |-> "u1"],
     [service_type |-> "llm_service", service_provider |-> "other",
      user_id |-> "u1"],
     [service_type |-> "llm_service", service_provider |-> "openai",
      user_id |-> "u2"],
     [service_type |-> "api_service", service_provider |-> "openai",
      user_id |-> "u2"]}

\* Insertion orders of three events with distinct timestamps.
TimestampOrders == {<<1, 2, 3>>, <<3, 1, 2>>}

\* The usage_events tables read: three rows, the third of either tenant.
QueryTables ==
    {[i \in 1..3 |->
         [event_id |-> QueryEventIds[i],
          tenant_id |-> IF i = 3 THEN last_tenant ELSE "t1",
          timestamp |-> timestamps[i]] @@ kinds[i]] :
       kinds \in [1..3 -> RowKinds], timestamps \in TimestampOrders,
       last_tenant \in Tenants}

\* Query strings: <<>> is "parameter not given".
QueryParams ==
    [tenant_id : {"t1"},
     start_date : {<<>>, <<2>>},
     end_date : {<<>>, <<2>>},
     service_type : {<<>>, <<"llm_service">>},
     service_provider : {<<>>, <<"openai">>},
     user_id : {<<>>, <<"u1">>},
     limit : 0..MaxLimit,
     offset : 0..MaxOffset]

\* The WHERE clause of get_events_by_tenant: the tenant and every condition
\* whose argument is given.
Selected(row, tenant_id, start_date, end_date, service_type, user_id) ==
    /\ row.tenant_id = tenant_id
    /\ (start_date # <<>> => row.timestamp >= start_date[1])
    /\ (end_date # <<>> => row.timestamp <= end_date[1])
    /\ (service_type # <<>> => row.service_type = service_type[1])
    /\ (user_id # <<>> => row.user_id = user_id[1])

\* order_by(desc(UsageEvent.timestamp)) over rows of distinct timestamps.
RECURSIVE OrderByTimestampDesc(_)
OrderByTimestampDesc(rows) ==
    IF rows = {} THEN <<>>
    ELSE LET latest == CHOOSE r \in rows :
                           \A other \in rows : other.timestamp <= r.timestamp
         IN  <<latest>> \o OrderByTimestampDesc(rows \ {latest})

\* .limit(limit).offset(offset)
LimitOffset(rows, limit, offset) ==
    SubSeq(rows, offset + 1, Min(Len(rows), offset + limit))

\* UsageEventRepository.get_events_by_tenant: the page and the count of the
\* rows the conditions select.
get_events_by_tenant(table, tenant_id, start_date, end_date, service_type, user_id, limit, offset) ==
    LET rows == {table[i] : i \in {j \in DOMAIN table :
                     Selected(table[j], tenant_id, start_date, end_date,
                              service_type, user_id)}}
    IN  [events |-> LimitOffset(OrderByTimestampDesc(rows), limit, offset),
         total_count |-> Cardinality(rows)]

\* [e for e in events if e.service_provider == service_provider]
RECURSIVE OfProvider(_, _)
OfProvider(events, service_provider) ==
    IF events = <<>> THEN <<>>
    ELSE (IF Head(events).service_provider = service_provider
          THEN <<Head(events)>> ELSE <<>>)
             \o OfProvider(Tail(events), service_provider)

\* The date range query_usage passes on: end_date defaults to utcnow(),
\* start_date to 30 days before end_date.
EffectiveEnd(params) ==
    IF params.end_date = <<>> THEN <<QueryNow>> ELSE params.end_date

EffectiveStart(params) ==
    IF params.start_date = <<>> THEN <<EffectiveEnd(params)[1] - default_days>>
    ELSE params.start_date

\* query_usage of the query service.
query_usage(table, params) ==
    LET page == get_events_by_tenant(table, params.tenant_id,
                                     EffectiveStart(params), EffectiveEnd(params),
                                     params.service_type, params.user_id,
                                     params.limit, params.offset)
        events == IF params.service_provider # <<>>
                  THEN OfProvider(page.events, params.service_provider[1])
                  ELSE page.events
        total_count == IF params.service_provider # <<>> THEN Len(events)
                       ELSE page.total_count
    IN  [status_code |-> 200, events |-> events, total_count |-> total_count,
         limit |-> params.limit, offset |-> params.offset,
         has_more |-> params.offset + Len(events) < total_count]

\* get_usage of the gateway: no service_provider parameter is declared, so
\* one in the query string is ignored; the dates have no default.
get_usage(table, params) ==
    IF params.limit <= 0 \/ params.limit > 10000
    THEN [status_code |-> 400]
    ELSE LET page == get_events_by_tenant(table, params.tenant_id,
                                          params.start_date, params.end_date,
                                          params.service_type, params.user_id,
                                          params.limit, params.offset)
         IN  [status_code |-> 200, events |-> page.events,
              total_count |-> page.total_count,
              limit |-> params.limit, offset |-> params.offset,
              has_more |-> params.offset + Len(page.events) < page.total_count]

QueryInit ==
    /\ AtRest
    /\ validator_call = NoCall
    /\ pricing_call = NoCall
    /\ tier_call = NoCall
    /\ cost_call = NoCall
    /\ trend_call = NoCall
    /\ running = [r \in Replicas |-> TRUE]
    /\ \E table \in QueryTables :
         \E params \in QueryParams :
           query_call = [done |-> FALSE, table |-> table, params |-> params]
    /\ boundaries_call = NoCall
    /\ tracker = NoCall
    /\ isolation_call = NoCall

\* GET /api/v1/usage served by the query service.
QueryUsage ==
    /\ ~query_call.done
    /\ query_call' =
           [done |-> TRUE, table |-> query_call.table,
            params |-> query_call.params, handler |-> "query_service",
            response |-> query_usage(query_call.table, query_call.params)]
    /\ UNCHANGED <<usage_events, dead_letter_events, db_usage_events, billing_rule,
                   redis_up, store_up, proc, submitted, upsert_log, gateway_vars,
                   aggregation_vars,
                   validator_call, pricing_call, tier_call, cost_call, trend_call, running,
                   boundaries_call, tracker, isolation_call>>

\* GET /api/v1/usage served by the gateway.
GetUsage ==
    /\ ~query_call.done
    /\ query_call' =
           [done |-> TRUE, table |-> query_call.table,
            params |-> query_call.params, handler |-> "api_gateway",
            response |-> get_usage(query_call.table, query_call.params)]
    /\ UNCHANGED <<usage_events, dead_letter_events, db_usage_events, billing_rule,
                   redis_up, store_up, proc, submitted, upsert_log, gateway_vars,
                   aggregation_vars,
                   validator_call, pricing_call, tier_call, cost_call, trend_call, running,
                   boundaries_call, tracker, isolation_call>>

QueryNext == QueryUsage \/ GetUsage

QuerySpec == QueryInit /\ [][QueryNext]_vars

\* The handler answered 200.
Answered ==
    query_call.done /\ query_call # NoCall /\ query_call.response.status_code = 200

\* The stored events that match every filter of the request, service_provider
\* included (the date range is the one the handler applies).
MatchingAll(handler, table, params) ==
    {table[i] : i \in {j \in DOMAIN table :
        /\ Selected(table[j], params.tenant_id,
                    IF handler = "query_service" THEN EffectiveStart(params)
                    ELSE params.start_date,
                    IF handler = "query_service" THEN EffectiveEnd(params)
                    ELSE params.end_date,
                    params.service_type, params.user_id)
        /\ (params.service_provider # <<>> =>
                table[j].service_provider = params.service_provider[1])}}

\* C26: the response holds at most limit events, all of the requested tenant
\* and matching the filters, sorted by timestamp descending; total_count is
\* the number of events matching all filters; has_more is true exactly when
\* matching events exist beyond offset + the number returned; for every
\* combination of filters, service_provider included.
C26_UsagePage ==
    Answered =>
        LET response == query_call.response
            matching == MatchingAll(query_call.handler, query_call.table,
                                    query_call.params)
        IN  /\ Len(response.events) <= query_call.params.limit
            /\ \A i \in DOMAIN response.events : response.events[i] \in matching
            /\ \A i, j \in DOMAIN response.events :
                   i < j => response.events[i].timestamp
                                >= response.events[j].timestamp
            /\ response.total_count = Cardinality(matching)
            /\ response.has_more
                   <=> (query_call.params.offset + Len(response.events)
                            < Cardinality(matching))

(***************************************************************************)
(* GET /api/v1/analytics/trends: the trend of a metric over the series of  *)
(* aggregates that get_aggregates returns in period_start order.           *)
(***************************************************************************)
MaxSeries == 4

\* Values of the metric (event_count, unique_users or total_cost). A mean
\* is kept as the pair of the sum and the number of values, and means are
\* compared exactly, as fractions.
TrendValues == {0, 10, 94, 95, 100, 105, 106}

RECURSIVE SeriesUpTo(_)
SeriesUpTo(n) ==
    IF n = 0 THEN {<<>>}
    ELSE LET shorter == SeriesUpTo(n - 1)
         IN  shorter \cup {Append(s, v) : s \in {t \in shorter : Len(t) = n - 1},
                                          v \in TrendValues}

\* The daily event_counts of the trend-detection scenario.
DailyEventCounts == <<10, 10, 10, 10, 100, 100, 100, 100>>

TrendSeries == SeriesUpTo(MaxSeries) \cup {DailyEventCounts}

\* sum(values)
RECURSIVE sum(_)
sum(values) == IF values = <<>> THEN 0 ELSE Head(values) + sum(Tail(values))

\* metric_values[:len(metric_values)//2] and metric_values[len(metric_values)//2:]
first_half(metric_values) == SubSeq(metric_values, 1, Len(metric_values) \div 2)

second_half(metric_values) ==
    SubSeq(metric_values, Len(metric_values) \div 2 + 1, Len(metric_values))

\* Variant: no dead band, any difference of the means is a trend.
trend_direction_no_band(first, second) ==
    IF second.sum * first.len > first.sum * second.len THEN "up"
    ELSE IF second.sum * first.len < first.sum * second.len THEN "down"
    ELSE "stable"

\* second_avg > first_avg * 1.05 -> "up"; second_avg < first_avg * 0.95 ->
\* "down"; both sides multiplied by 100 * len(first_half) * len(second_half).
trend_direction(first, second) ==
    IF 100 * second.sum * first.len > 105 * first.sum * second.len THEN "up"
    ELSE IF 100 * second.sum * first.len < 95 * first.sum * second.len THEN "down"
    ELSE "stable"

\* ((second_avg - first_avg) / first_avg) * 100 when first_avg > 0, else 0.0;
\* in hundredths of a percent, rounded to the nearest.
percentage_change(first, second) ==
    IF first.sum > 0
    THEN LET num == (second.sum * first.len - first.sum * second.len) * 10000
             den == first.sum * second.len
         IN  (2 * num + den) \div (2 * den)
    ELSE 0

\* The trend part of get_trend_analysis.
get_trend_analysis(metric_values) ==
    IF Len(metric_values) >= 2
    THEN LET first == [sum |-> sum(first_half(metric_values)),
                       len |-> Len(first_half(metric_values))]
             second == [sum |-> sum(second_half(metric_values)),
                        len |-> Len(second_half(metric_values))]
         IN  [trend_direction |-> trend_direction(first, second),
              percentage_change |-> percentage_change(first, second)]
    ELSE [trend_direction |-> "stable", percentage_change |-> 0]

TrendInit ==
    /\ AtRest
    /\ validator_call = NoCall
    /\ pricing_call = NoCall
    /\ tier_call = NoCall
    /\ cost_call = NoCall
    /\ query_call = NoCall
    /\ \E metric_values \in TrendSeries :
         trend_call = [done |-> FALSE, metric_values |-> metric_values]
    /\ running = [r \in Replicas |-> TRUE]
    /\ boundaries_call = NoCall
    /\ tracker = NoCall
    /\ isolation_call = NoCall

\* GET /api/v1/analytics/trends over the series.
GetTrendAnalysis ==
    /\ ~trend_call.done
    /\ trend_call' =
           [done |-> TRUE, metric_values |-> trend_call.metric_values,
            response |-> get_trend_analysis(trend_call.metric_values)]
    /\ UNCHANGED <<usage_events, dead_letter_events, db_usage_events, billing_rule,
                   redis_up, store_up, proc, submitted, upsert_log, gateway_vars,
                   aggregation_vars,
                   validator_call, pricing_call, tier_call, cost_call, query_call, running,
                   boundaries_call, tracker, isolation_call>>

TrendSpec == TrendInit /\ [][GetTrendAnalysis]_vars

\* The two means of a series of at least two values, second minus first and
\* first, over the common denominator len(first) * len(second).
MeanDifference(values) ==
    sum(second_half(values)) * Len(first_half(values))
        - sum(first_half(values)) * Len(second_half(values))

FirstMean(values) == sum(first_half(values)) * Len(second_half(values))

\* C27: over a series of at least two values the direction is up when the
\* second-half mean exceeds the first-half mean by more than 5%, down when
\* it is more than 5% below, stable otherwise, and percentage_change is
\* (second - first) / first * 100, or 0 when the first mean is 0; the series
\* of four 10s and four 100s yields up and 900.
C27_TrendDirection ==
    (trend_call.done /\ trend_call # NoCall /\ Len(trend_call.metric_values) >= 2) =>
        LET values == trend_call.metric_values
            response == trend_call.response
        IN  /\ response.trend_direction =
                   (IF 20 * MeanDifference(values) > FirstMean(values) THEN "up"
                    ELSE IF 20 * (-MeanDifference(values)) > FirstMean(values)
                    THEN "down" ELSE "stable")
            /\ IF FirstMean(values) = 0 THEN response.percentage_change = 0
               ELSE 2 * (response.percentage_change * FirstMean(values)
                             - 10000 * MeanDifference(values)) \in
                        (-FirstMean(values))..FirstMean(values)
            /\ (values = DailyEventCounts =>
                    /\ response.trend_direction = "up"
                    /\ response.percentage_change = 90000)

\* The scenario's series was analysed and its trend is up.
C27_Witness ==
    /\ trend_call.done
    /\ trend_call # NoCall
    /\ trend_call.metric_values = DailyEventCounts
    /\ trend_call.response.trend_direction = "up"

(***************************************************************************)
(* The gateway and the processors together: what becomes of the events     *)
(* that ingest accepted.                                                   *)
(***************************************************************************)
\* Authenticated ingest requests of one tenant: one event, and a batch of
\* two valid events around an invalid one.
IngestRequests ==
    {Request("/api/v1/events", <<"test-api-key">>, <<>>, "t1", <<"e1">>),
     Request("/api/v1/events/batch", <<"test-api-key">>, <<>>, "t1",
             <<"e1_total", "invalid", "e2">>)}

\* Redis becomes reachable again.
RedisRecovers == ~redis_up /\ RedisFlip

PipelineNext ==
    \/ Startup
    \/ \E s \in Slots, req \in IngestRequests : Receive(s, req)
    \/ \E s \in Slots : Handle(s)
    \/ RunBackgroundTask
    \/ GetBatch("p1")
    \/ ProcessBatch("p1")
    \/ StoreAndHandleFailed("p1")
    \/ RedisRecovers

\* The assembled gateway in front of the queue and one processor behind
\* it; the database is reachable, Redis may be unreachable when the gateway
\* starts and come back later.
PipelineInit ==
    /\ AssembledInit
    /\ store_up

PipelineSpec == PipelineInit /\ [][PipelineNext]_vars

\* Nothing is queued, in a processor's hands or waiting as a background
\* task, and no request is being handled: no step of the pipeline is left
\* to take for the events accepted so far.
Quiescent ==
    /\ usage_events = <<>>
    /\ background_tasks = <<>>
    /\ \A r \in Replicas : proc[r].pc = "idle"
    /\ \A s \in Slots : slots[s].pc \in {"idle", "done"}

\* The validated events of the ingest requests answered 200 that the
\* connections still show.
AcceptedByIngest ==
    UNION {SeqRange(HandedOff(slots[s].req)) :
              s \in {t \in Slots : /\ slots[t].pc = "done"
                                   /\ slots[t].req.path \in IngestPaths
                                   /\ slots[t].response.status = 200}}

\* GET /api/v1/usage shows the event as processed: a row of its event_id in
\* status completed or failed.
Advanced(id) ==
    \E i \in RowIndexes(db_usage_events, id) :
        db_usage_events[i].status \in {"completed", "failed"}

\* C28: every event accepted by ingest, queued or stored directly as
\* pending, is eventually advanced to completed or failed and returned by
\* GET /api/v1/usage with the fields it was posted with; none stays
\* pending. Stated on finite runs: once the database has been reachable
\* throughout and the pipeline has no step left to take, every accepted
\* event has a row in status completed or failed with its service_type and
\* token counts.
C28_AcceptedEventAdvanced ==
    (Quiescent /\ store_up /\ ~fallback_failed) =>
        /\ \A id \in accepted_events : Advanced(id)
        /\ \A e \in AcceptedByIngest :
              \E i \in RowIndexes(db_usage_events, e.event_id) :
                  /\ db_usage_events[i].status \in {"completed", "failed"}
                  /\ db_usage_events[i].service_type = e.service_type
                  /\ db_usage_events[i].input_tokens = e.input_tokens
                  /\ db_usage_events[i].output_tokens = e.output_tokens

(***************************************************************************)
(* A failed upsert of a batch.                                             *)
(***************************************************************************)
\* Replica r ends a batch whose successes _store_events could not commit:
\* there were successes and no upsert of them was recorded.
StoreFailed(r) ==
    /\ HandlesBatch(r)
    /\ proc[r].successful_events # <<>>
    /\ upsert_log' = upsert_log

\* The list after the step holds the list before it as the part that is
\* popped first, so what the step pushed is consumed after it.
PushedBehind ==
    /\ Len(usage_events') >= Len(usage_events)
    /\ SubSeq(usage_events', Len(usage_events') - Len(usage_events) + 1,
              Len(usage_events')) = usage_events

\* The payloads the step pushed.
Pushed == SubSeq(usage_events', 1, Len(usage_events') - Len(usage_events))

\* C29: when the upsert of a batch's successes fails, no row of the attempt
\* stays in the table and every event handed to the upsert is pushed back
\* onto usage_events behind what is queued, with its event_id, so that none
\* of them is lost.
C29_FailedStoreRequeuesBatch ==
    [][\A r \in Replicas :
          StoreFailed(r) =>
              /\ db_usage_events' = db_usage_events
              /\ PushedBehind
              /\ \A i \in DOMAIN proc[r].successful_events :
                     Count(Pushed, Serialize(proc[r].successful_events[i]))
                         >= Count(proc[r].successful_events,
                                  proc[r].successful_events[i])]_vars

(***************************************************************************)
(* The status of a stored row.                                             *)
(***************************************************************************)
\* C30: a stored row never moves from completed to failed or pending,
\* whatever duplicate deliveries, resubmissions and processing failures
\* occur for its event_id.
C30_CompletedIsFinal ==
    [][\A i \in DOMAIN db_usage_events :
          db_usage_events[i].status = "completed" =>
              \A j \in RowIndexes(db_usage_events', db_usage_events[i].event_id) :
                  db_usage_events'[j].status \notin {"failed", "pending"}]_vars

(***************************************************************************)
(* What an upsert leaves alone.                                            *)
(***************************************************************************)
\* The event_ids a step's _store_events call writes.
UpsertedIds ==
    UNION {{proc[r].successful_events[i].event_id :
               i \in DOMAIN proc[r].successful_events} :
           r \in {q \in Replicas : HandlesBatch(q)}}

\* C31: an upsert that hits an existing event_id changes only status,
\* billing_info, total_cost, error_message and retry_count of that row: its
\* service_type and metrics stay as they were inserted, and no other row is
\* touched.
C31_UpsertFrame ==
    [][\A i \in DOMAIN db_usage_events :
          /\ i \in DOMAIN db_usage_events'
          /\ db_usage_events'[i].event_id = db_usage_events[i].event_id
          /\ db_usage_events'[i].service_type = db_usage_events[i].service_type
          /\ db_usage_events'[i].input_tokens = db_usage_events[i].input_tokens
          /\ db_usage_events'[i].output_tokens = db_usage_events[i].output_tokens
          /\ db_usage_events'[i].total_tokens = db_usage_events[i].total_tokens
          /\ db_usage_events[i].event_id \notin UpsertedIds =>
                 db_usage_events'[i] = db_usage_events[i]]_vars

\* A second upsert hit the row of an event: the delivery proposed a row
\* without total_tokens (its processing failed before the enrichment), the
\* row was marked failed and kept the total_tokens of the first delivery.
C31_Witness ==
    \E i \in DOMAIN db_usage_events :
        /\ Len(upsert_log[db_usage_events[i].event_id]) >= 2
        /\ db_usage_events[i].status = "failed"
        /\ db_usage_events[i].total_tokens # <<>>

(***************************************************************************)
(* usage_events as a queue: producers LPUSH, the processor BRPOP/RPOPs     *)
(***************************************************************************)
\* Payloads waiting in usage_events when the processor starts: the i-th
\* pushed is at index n - i + 1, the oldest at the tail.
BacklogKinds == <<<<"e1", "good">>, <<"e2", "good">>, <<"e2", "missing_field">>>>
Backlog(n) ==
    LPushAll(<<>>, [i \in 1..n |->
                      Serialize(FreshEvent(BacklogKinds[(i % 3) + 1][1],
                                           BacklogKinds[(i % 3) + 1][2]))])

\* The gateway in front of the queue and one processor behind it, started
\* on an empty queue or on a backlog of more than batch_size payloads.  The
\* database is unreachable, so that every popped event comes back through
\* the retry path.
FifoInit ==
    /\ usage_events \in {Backlog(0), Backlog(batch_size + 1)}
    /\ dead_letter_events = <<>>
    /\ db_usage_events = <<>>
    /\ proc = [r \in Replicas |-> IdleProc]
    /\ submitted = 0
    /\ upsert_log = [e \in EventIds |-> <<>>]
    /\ billing_rule \in [is_active : {TRUE}, rate_per_unit : Rates]
    /\ redis_up = TRUE
    /\ store_up = FALSE
    /\ GatewayInit(FALSE)
    /\ NoCalls
    /\ NoAggregation

FifoNext ==
    \/ Startup
    \/ \E s \in Slots, req \in IngestRequests : Receive(s, req)
    \/ \E s \in Slots : Handle(s)
    \/ GetBatch("p1")
    \/ ProcessBatch("p1")
    \/ StoreAndHandleFailed("p1")

FifoSpec == FifoInit /\ [][FifoNext]_vars

\* The payloads a step took from usage_events, in the order RPOP returns
\* them: from the tail towards the head.
Popped ==
    [k \in 1..(Len(usage_events) - Len(usage_events')) |->
        usage_events[Len(usage_events) - k + 1]]

\* The payloads a step pushed, in the order they were pushed.
PushedInOrder ==
    [k \in 1..Len(Pushed) |-> Pushed[Len(Pushed) - k + 1]]

\* C32: usage_events is first-in first-out for one processor: a step that
\* pushes (a single event, the events of a batch in input order, re-enqueued
\* events) puts its payloads behind everything queued, in the order pushed,
\* and a step that pops takes between 1 and batch_size payloads from the
\* other end, oldest first, and leaves the rest as it was; the batch the
\* processor then holds is these payloads in that order.
C32_Fifo ==
    [][/\ Len(usage_events') >= Len(usage_events) => PushedBehind
       /\ \A s \in Slots :
              Answers(s) =>
                  PushedInOrder =
                      [i \in DOMAIN Enqueued(slots[s].req) |->
                          Serialize(Enqueued(slots[s].req)[i])]
       /\ Len(usage_events') < Len(usage_events) =>
              /\ Len(Popped) \in 1..batch_size
              /\ usage_events' =
                     SubSeq(usage_events, 1, Len(usage_events) - Len(Popped))
              /\ proc'["p1"].pc = "process" =>
                     proc'["p1"].events =
                         [k \in DOMAIN Popped |-> _deserialize_event(Popped[k])]]_vars

\* The processor holds a full batch, the oldest batch_size payloads of a
\* longer backlog, and the payload pushed after them is still queued.
C32_Witness ==
    /\ Len(proc["p1"].events) = batch_size
    /\ proc["p1"].pc = "process"
    /\ usage_events # <<>>
    /\ RPopValue(usage_events) = Backlog(batch_size + 1)[1]
    /\ proc["p1"].events[1] =
           _deserialize_event(RPopValue(Backlog(batch_size + 1)))

(***************************************************************************)
(* EventProcessor.stop and the interruption of main()                      *)
(***************************************************************************)
\* The processor after its loop has ended.
ExitedProc == [IdleProc EXCEPT !.pc = "exited"]

\* "while self.running:" of _processing_loop, checked between two batches.
LoopGetBatch(r) ==
    /\ running[r]
    /\ GetBatch(r)

LoopExit(r) ==
    /\ ~running[r]
    /\ proc[r].pc = "idle"
    /\ proc' = [proc EXCEPT ![r] = ExitedProc]
    /\ UNCHANGED <<usage_events, dead_letter_events, db_usage_events,
                   billing_rule, redis_up, store_up, submitted, upsert_log>>
    /\ UNCHANGED <<gateway_vars, call_vars, aggregation_vars>>

\* stop(), called while the loop is running: self.running = False.  The
\* batch in hand goes on through ProcessBatch and StoreAndHandleFailed.
Stop(r) ==
    /\ running[r]
    /\ proc[r].pc # "exited"
    /\ running' = [running EXCEPT ![r] = FALSE]
    /\ UNCHANGED <<usage_events, dead_letter_events, db_usage_events,
                   billing_rule, redis_up, store_up, proc, submitted,
                   upsert_log>>
    /\ UNCHANGED <<gateway_vars, aggregation_vars, validator_call,
                   pricing_call, tier_call, cost_call, query_call, trend_call,
                   boundaries_call, tracker, isolation_call>>

\* KeyboardInterrupt or the cancellation of the task of asyncio.run(main()):
\* the exception is raised at the await the loop is suspended in.  It is no
\* Exception, so "except Exception" of _processing_loop lets it through;
\* main() then runs processor.stop() in its finally.  The lists of the batch
\* are locals of the abandoned frames.
Cancel(r) ==
    /\ running[r]
    /\ proc[r].pc # "exited"
    /\ running' = [running EXCEPT ![r] = FALSE]
    /\ proc' = [proc EXCEPT ![r] = ExitedProc]
    /\ UNCHANGED <<usage_events, dead_letter_events, db_usage_events,
                   billing_rule, redis_up, store_up, submitted, upsert_log>>
    /\ UNCHANGED <<gateway_vars, aggregation_vars, validator_call,
                   pricing_call, tier_call, cost_call, query_call, trend_call,
                   boundaries_call, tracker, isolation_call>>

StopNext ==
    \/ \E s \in Submissions : Produce(s[1], s[2])
    \/ LoopGetBatch("p1")
    \/ ProcessBatch("p1")
    \/ StoreAndHandleFailed("p1")
    \/ LoopExit("p1")
    \/ Stop("p1")
    \/ Cancel("p1")

\* One processor on what producers push; Redis and the database are
\* reachable, single calls can still fail.
StopInit == Init

StopSpec == StopInit /\ [][StopNext]_vars

\* Number of upserts the step made.
Upserted ==
    LET n(log) == Len(log["e1"]) + Len(log["e2"])
    IN  n(upsert_log') - n(upsert_log)

\* Events the processor holds: the batch as popped, then the batch as
\* split into processed and failed events.
InHand(r) ==
    IF proc[r].pc = "process" THEN Len(proc[r].events)
    ELSE Len(proc[r].successful_events) + Len(proc[r].failed_events)

\* C33: no popped event is dropped, also when the processor is stopped or
\* interrupted: the payloads a step pops from usage_events are the batch the
\* processor holds after it, and when the processor lets go of a batch (it
\* is back at the loop head, or has exited) every event of the batch was
\* upserted, pushed back to usage_events or pushed to dead_letter_events by
\* that step.
C33_NoPoppedEventDropped ==
    [][/\ Len(usage_events') < Len(usage_events) =>
              InHand("p1")' = Len(usage_events) - Len(usage_events')
       /\ (proc["p1"].pc \in {"process", "store"}
             /\ proc'["p1"].pc \in {"idle", "exited"}) =>
              InHand("p1") <= Upserted
                              + (Len(usage_events') - Len(usage_events))
                              + (Len(dead_letter_events')
                                   - Len(dead_letter_events))]_vars

(***************************************************************************)
(* _get_period_boundaries over the replay windows of _run_all_aggregations *)
(***************************************************************************)
AllPeriods == {"hour", "day", "week", "month"}

\* datetime.utcnow() of a run: every time of more than one calendar year.
MaxNow == 380
Nows == (2 * YearDays * PeriodLength("day"))..MaxNow

BoundariesInit ==
    /\ AtRest
    /\ validator_call = NoCall
    /\ pricing_call = NoCall
    /\ tier_call = NoCall
    /\ cost_call = NoCall
    /\ query_call = NoCall
    /\ trend_call = NoCall
    /\ running = [r \in Replicas |-> TRUE]
    /\ \E period \in AllPeriods, now \in Nows :
         boundaries_call = [done |-> FALSE, period |-> period,
                            start_time |-> ReplayWindow(period, now)[1],
                            end_time |-> ReplayWindow(period, now)[2]]
    /\ tracker = NoCall
    /\ isolation_call = NoCall

GetPeriodBoundaries ==
    /\ ~boundaries_call.done
    /\ boundaries_call' =
           [boundaries_call EXCEPT !.done = TRUE] @@
           [periods |-> _get_period_boundaries(boundaries_call.period,
                                               boundaries_call.start_time,
                                               boundaries_call.end_time)]
    /\ UNCHANGED <<usage_events, dead_letter_events, db_usage_events, billing_rule,
                   redis_up, store_up, proc, submitted, upsert_log, gateway_vars,
                   aggregation_vars,
                   validator_call, pricing_call, tier_call, cost_call, query_call,
                   trend_call, running, tracker, isolation_call>>

BoundariesSpec == BoundariesInit /\ [][GetPeriodBoundaries]_vars

\* The periods cover [start_time, end_time) without gap or overlap: the
\* first starts at start_time, each starts where the one before ends and is
\* a whole period of its type, none is empty, the last ends at end_time.
Tiles(period, periods, start_time, end_time) ==
    /\ periods # <<>>
    /\ periods[1][1] = start_time
    /\ periods[Len(periods)][2] = end_time
    /\ \A k \in DOMAIN periods : periods[k][1] < periods[k][2]
    /\ \A k \in 1..(Len(periods) - 1) :
           /\ periods[k][2] = periods[k + 1][1]
           /\ periods[k][2] = current_end(period, periods[k][1])
    /\ periods[Len(periods)][2]
           <= current_end(period, periods[Len(periods)][1])

\* C34: for every period type and every replay window with start < end the
\* periods of _get_period_boundaries tile the window (the last one cut at
\* end), and every timestamp of the window lies in exactly one period.
C34_PeriodsTileWindow ==
    (boundaries_call.done
       /\ boundaries_call.start_time < boundaries_call.end_time) =>
        /\ Tiles(boundaries_call.period, boundaries_call.periods,
                 boundaries_call.start_time, boundaries_call.end_time)
        /\ \A t \in boundaries_call.start_time..(boundaries_call.end_time - 1) :
               Cardinality({k \in DOMAIN boundaries_call.periods :
                               /\ boundaries_call.periods[k][1] <= t
                               /\ t < boundaries_call.periods[k][2]}) = 1

\* A week pass run on a day that is no Monday: five whole weeks and a last
\* period cut at the start of the day.
C34_Witness ==
    /\ boundaries_call.done
    /\ boundaries_call.period = "week"
    /\ Len(boundaries_call.periods) = weeks_back + 1
    /\ boundaries_call.periods[weeks_back + 1][2]
           < current_end("week", boundaries_call.periods[weeks_back + 1][1])
    /\ boundaries_call.periods[weeks_back + 1][2] = boundaries_call.end_time

(***************************************************************************)
(* The billing summaries of the stored events                              *)
(***************************************************************************)
MaxBillingClock == 12

\* _generate_billing_summaries on its own; the statement of one tenant in
\* one of the two months may raise.
GenerateBillingSummaries ==
    /\ \E order \in TenantOrders,
          failing \in {<<0, "none">>} \cup ({1, 2} \X Tenants) :
         db_billing_summaries' =
             _generate_billing_summaries(db_billing_summaries, db_usage_events,
                                         clock, order, failing)
    /\ UNCHANGED <<usage_events, dead_letter_events, db_usage_events, billing_rule,
                   redis_up, store_up, proc, submitted, upsert_log, gateway_vars,
                   call_vars, clock, db_usage_aggregates, agg_session, agg_error>>

\* Billing closes a month by hand: nothing in the services sets
\* is_finalized.
Finalize ==
    /\ \E i \in 1..Len(db_billing_summaries) :
         /\ ~db_billing_summaries[i].is_finalized
         /\ db_billing_summaries' =
                [db_billing_summaries EXCEPT
                    ![i] = [@ EXCEPT !.is_finalized = TRUE,
                                     !.finalized_at = <<clock>>]]
    /\ UNCHANGED <<usage_events, dead_letter_events, db_usage_events, billing_rule,
                   redis_up, store_up, proc, submitted, upsert_log, gateway_vars,
                   call_vars, clock, db_usage_aggregates, agg_session, agg_error>>

\* A day passes.
BillingTick ==
    /\ clock + PeriodLength("day") <= MaxBillingClock
    /\ clock' = clock + PeriodLength("day")
    /\ UNCHANGED <<usage_events, dead_letter_events, db_usage_events, billing_rule,
                   redis_up, store_up, proc, submitted, upsert_log, gateway_vars,
                   call_vars, db_usage_aggregates, agg_session, agg_error,
                   db_billing_summaries>>

BillingNext ==
    \/ StoreEvent
    \/ GenerateBillingSummaries
    \/ Finalize
    \/ BillingTick

BillingSpec == AggregationInit /\ [][BillingNext]_vars

\* The columns of a summary the pass does not name in set_.
KeptColumns(row) ==
    [tenant_id     |-> row.tenant_id,
     billing_year  |-> row.billing_year,
     billing_month |-> row.billing_month,
     is_finalized  |-> row.is_finalized,
     finalized_at  |-> row.finalized_at,
     created_at    |-> row.created_at]

\* C35: the billing summary pass keeps one row per (tenant_id,
\* billing_year, billing_month); a row it creates has is_finalized FALSE, and
\* of a row that exists it overwrites only total_cost, cost_by_service,
\* cost_by_user, total_events, active_users and updated_at: is_finalized and
\* finalized_at stay as they were, so the pass never sets is_finalized.
C35_SummaryUpsertFrame ==
    [][GenerateBillingSummaries =>
          /\ \A i, j \in 1..Len(db_billing_summaries') :
                 db_billing_summaries'[i].tenant_id
                     = db_billing_summaries'[j].tenant_id
                 /\ db_billing_summaries'[i].billing_year
                     = db_billing_summaries'[j].billing_year
                 /\ db_billing_summaries'[i].billing_month
                     = db_billing_summaries'[j].billing_month
                 => i = j
          /\ Len(db_billing_summaries') >= Len(db_billing_summaries)
          /\ \A i \in 1..Len(db_billing_summaries) :
                 KeptColumns(db_billing_summaries'[i])
                     = KeptColumns(db_billing_summaries[i])
          /\ \A i \in (Len(db_billing_summaries) + 1)..Len(db_billing_summaries') :
                 /\ ~db_billing_summaries'[i].is_finalized
                 /\ db_billing_summaries'[i].finalized_at = <<>>]_vars

\* A finalized summary that a later pass has recomputed: it counts an event
\* stored after the month was closed.
C35_Witness ==
    \E i \in 1..Len(db_billing_summaries) :
        /\ db_billing_summaries[i].is_finalized
        /\ db_billing_summaries[i].updated_at
               > db_billing_summaries[i].finalized_at[1]
        /\ db_billing_summaries[i].total_events = 2

(***************************************************************************)
(* client_sdk/usage_tracker.py: UsageTracker                               *)
(***************************************************************************)
\* UsageTracker.__init__: batch_size (default 100), max_retries (default
\* 3) and flush_interval (default 5.0 seconds), scaled down; retry_backoff.
sdk_batch_size == 2
max_retries == 2
flush_interval == 2
retry_backoff == 1

\* Events tracked and flush_events() / close() calls made in a run.
MaxTracked == 3
MaxFlushes == 1

\* Coroutines of the application that call the tracker.
Callers == {"c1", "c2"}

\* What an await of self._client.post(...) ends in: a response, or one of
\* the two httpx exceptions the send loops catch.
Response(status, retry_after) ==
    [kind |-> "response", status |-> status, retry_after |-> retry_after]
Outcomes ==
    {Response(status, <<>>) : status \in {200, 400, 401, 404, 500}}
        \cup {Response(429, <<60>>)}
        \cup {[kind |-> k, status |-> 0, retry_after |-> <<>>] :
                 k \in {"ConnectError", "TimeoutException"}}

\* _handle_error_response: the exception raised for a response that is not
\* 200; RateLimitError carries response.headers.get("Retry-After").
_handle_error_response(response) ==
    [error |-> CASE response.status = 400 -> "ValidationError"
                 [] response.status = 401 -> "AuthenticationError"
                 [] response.status = 429 -> "RateLimitError"
                 [] response.status >= 500 -> "ServiceUnavailableError"
                 [] OTHER -> "UsageTrackingError",
     retry_after |-> IF response.status = 429 THEN response.retry_after
                     ELSE <<>>]

\* The send loops with responses of status 500 and above retried as well.
Retried_also_server_errors(outcome) ==
    \/ outcome.kind \in {"ConnectError", "TimeoutException"}
    \/ outcome.kind = "response" /\ outcome.status >= 500

\* except (httpx.ConnectError, httpx.TimeoutException)
Retried(outcome) == outcome.kind \in {"ConnectError", "TimeoutException"}

\* _flush_batch with the failed events not put back.
after_failed_flush_dropped(_event_batch, events_to_send) == _event_batch

\* _flush_batch, except Exception: self._event_batch.extend(events_to_send)
after_failed_flush(_event_batch, events_to_send) ==
    _event_batch \o events_to_send

\* should_flush of _add_to_batch without the test of the buffer's length.
should_flush_on_interval_only(_event_batch, since_flush) ==
    since_flush >= flush_interval

\* should_flush of _add_to_batch; since_flush is
\* (datetime.utcnow() - self._last_flush).total_seconds().
should_flush(_event_batch, since_flush) ==
    \/ Len(_event_batch) >= sdk_batch_size
    \/ since_flush >= flush_interval

NoError == [error |-> "none", retry_after |-> <<>>]

\* A caller outside the tracker. In a call, response is what its last POST
\* ended in and slept the backoffs so far; at "done" the call has returned
\* or raised.
IdleCaller ==
    [pc |-> "idle", op |-> "none", event |-> 0, events_to_send |-> <<>>,
     path |-> "", attempt |-> 0, slept |-> <<>>, raised |-> NoError,
     response |-> Response(0, <<>>)]

SdkInit ==
    /\ AtRest
    /\ validator_call = NoCall
    /\ pricing_call = NoCall
    /\ tier_call = NoCall
    /\ cost_call = NoCall
    /\ query_call = NoCall
    /\ trend_call = NoCall
    /\ running = [r \in Replicas |-> TRUE]
    /\ boundaries_call = NoCall
    /\ \E enable_batching \in BOOLEAN :
         tracker = [enable_batching |-> enable_batching,
                    _event_batch    |-> <<>>,
                    since_flush     |-> 0,
                    _flush_lock     |-> "free",
                    callers         |-> [c \in Callers |-> IdleCaller],
                    tracked         |-> 0,
                    flushes         |-> 0,
                    sent            |-> <<>>,
                    closed          |-> FALSE]
    /\ isolation_call = NoCall

SdkFrame ==
    UNCHANGED <<usage_events, dead_letter_events, db_usage_events, billing_rule,
                redis_up, store_up, proc, submitted, upsert_log, gateway_vars,
                aggregation_vars,
                validator_call, pricing_call, tier_call, cost_call, query_call,
                trend_call, running, boundaries_call, isolation_call>>

\* The first POST of a send.
StartSend(c, op, event, events, path) ==
    [IdleCaller EXCEPT !.pc = "send", !.op = op, !.event = event,
                       !.events_to_send = events, !.path = path]

\* track_llm / track_document / track_custom up to the first await of
\* _track_event: the event gets its event_id; with batching the caller
\* goes for the lock, without it into _send_single_event.
TrackEvent(c) ==
    /\ tracker.callers[c].pc = "idle"
    /\ tracker.tracked < MaxTracked
    /\ tracker' =
           [tracker EXCEPT
               !.tracked = @ + 1,
               !.callers[c] =
                   IF tracker.enable_batching
                   THEN [IdleCaller EXCEPT !.pc = "acquire", !.op = "track",
                                           !.event = tracker.tracked + 1]
                   ELSE StartSend(c, "track", tracker.tracked + 1,
                                  <<tracker.tracked + 1>>, "/api/v1/events")]
    /\ SdkFrame

\* flush_events() up to "async with self._flush_lock".
FlushEvents(c) ==
    /\ tracker.callers[c].pc = "idle"
    /\ tracker.flushes < MaxFlushes
    /\ tracker' =
           [tracker EXCEPT
               !.flushes = @ + 1,
               !.callers[c] = [IdleCaller EXCEPT !.pc = "acquire",
                                                 !.op = "flush"]]
    /\ SdkFrame

\* close(): flush_events() when batching is on and events are buffered,
\* then the HTTP client is closed.
Close(c) ==
    /\ tracker.callers[c].pc = "idle"
    /\ ~tracker.closed
    /\ tracker.flushes < MaxFlushes
    /\ tracker' =
           IF tracker.enable_batching /\ tracker._event_batch # <<>>
           THEN [tracker EXCEPT
                    !.flushes = @ + 1,
                    !.callers[c] = [IdleCaller EXCEPT !.pc = "acquire",
                                                      !.op = "close"]]
           ELSE [tracker EXCEPT !.flushes = @ + 1, !.closed = TRUE]
    /\ SdkFrame

\* The caller gets _flush_lock. _add_to_batch appends and flushes when
\* should_flush; flush_events flushes; _flush_batch returns 0 on an empty
\* buffer, else it copies and clears the buffer, resets _last_flush and
\* awaits the first POST with the lock held.
AcquireLock(c) ==
    /\ tracker.callers[c].pc = "acquire"
    /\ tracker._flush_lock = "free"
    /\ LET caller == tracker.callers[c]
           batch == IF caller.op = "track"
                    THEN Append(tracker._event_batch, caller.event)
                    ELSE tracker._event_batch
       IN  tracker' =
               IF (caller.op # "track"
                     \/ should_flush(batch, tracker.since_flush))
                  /\ batch # <<>>
               THEN [tracker EXCEPT
                        !._event_batch = <<>>,
                        !.since_flush = 0,
                        !._flush_lock = c,
                        !.callers[c] =
                            StartSend(c, caller.op, caller.event, batch,
                                      "/api/v1/events/batch")]
               ELSE [tracker EXCEPT
                        !._event_batch = batch,
                        !.closed = @ \/ caller.op = "close",
                        !.callers[c] = [IdleCaller EXCEPT !.pc = "done",
                                                          !.op = caller.op]]
    /\ SdkFrame

\* One pass of the for loop of _send_single_event / _send_batch_events: the
\* POST and what follows it, up to the next await or the end of the call.
Post(c) ==
    /\ tracker.callers[c].pc = "send"
    /\ \E outcome \in Outcomes :
         LET caller == tracker.callers[c]
             batching == caller.path = "/api/v1/events/batch"
             lock == IF batching THEN "free" ELSE tracker._flush_lock
             backoff == retry_backoff * 2^caller.attempt
         IN  tracker' =
                 IF outcome.kind = "response" /\ outcome.status = 200
                 THEN [tracker EXCEPT
                          !.sent = Append(@, [path |-> caller.path,
                                              events |-> caller.events_to_send]),
                          !._flush_lock = lock,
                          !.closed = @ \/ caller.op = "close",
                          !.callers[c] =
                              [caller EXCEPT !.pc = "done",
                                             !.response = outcome]]
                 ELSE IF Retried(outcome) /\ caller.attempt < max_retries
                 THEN [tracker EXCEPT
                          !.since_flush = Min(@ + backoff, flush_interval),
                          !.callers[c] =
                              [caller EXCEPT !.attempt = @ + 1,
                                             !.slept = Append(@, backoff),
                                             !.response = outcome]]
                 ELSE [tracker EXCEPT
                          !._event_batch =
                              IF batching
                              THEN after_failed_flush(@, caller.events_to_send)
                              ELSE @,
                          !._flush_lock = lock,
                          !.callers[c] =
                              [caller EXCEPT
                                  !.pc = "done",
                                  !.response = outcome,
                                  !.raised =
                                      IF outcome.kind = "response"
                                      THEN _handle_error_response(outcome)
                                      ELSE [error |-> "ServiceUnavailableError",
                                            retry_after |-> <<>>]]]
    /\ SdkFrame

\* The call is over: the caller has its result or its exception.
Return(c) ==
    /\ tracker.callers[c].pc = "done"
    /\ tracker' = [tracker EXCEPT !.callers[c] = IdleCaller]
    /\ SdkFrame

\* A second passes.
SdkElapse ==
    /\ tracker.since_flush < flush_interval
    /\ tracker' = [tracker EXCEPT !.since_flush = @ + 1]
    /\ SdkFrame

SdkNext ==
    \/ \E c \in Callers : TrackEvent(c)
    \/ \E c \in Callers : FlushEvents(c)
    \/ \E c \in Callers : Close(c)
    \/ \E c \in Callers : AcquireLock(c)
    \/ \E c \in Callers : Post(c)
    \/ \E c \in Callers : Return(c)
    \/ SdkElapse

SdkSpec == SdkInit /\ [][SdkNext]_vars

\* The caller's call takes the lock in this step, and ends its send in it.
Acquires(c) ==
    tracker.callers[c].pc = "acquire" /\ tracker'.callers[c].pc # "acquire"
EndsSend(c) ==
    tracker.callers[c].pc = "send" /\ tracker'.callers[c].pc = "done"

\* C36: with batching on, a tracked event sends nothing while fewer than
\* batch_size events are buffered and the flush interval has not elapsed;
\* when it brings the buffer to batch_size, the buffer is emptied into one
\* POST to /api/v1/events/batch that holds all buffered events in tracking
\* order, and when that POST is answered 200 it was the only one and the
\* buffer is empty; when close() completes nothing is left in the buffer.
C36_BatchFlush ==
    [][tracker.enable_batching =>
         \A c \in Callers :
           /\ (Acquires(c) /\ tracker.callers[c].op = "track") =>
                  LET batch == Append(tracker._event_batch,
                                      tracker.callers[c].event)
                  IN  IF Len(batch) < sdk_batch_size
                         /\ tracker.since_flush < flush_interval
                      THEN /\ tracker'.callers[c].pc = "done"
                           /\ tracker'._event_batch = batch
                           /\ tracker'.sent = tracker.sent
                      ELSE /\ tracker'.callers[c].pc = "send"
                           /\ tracker'.callers[c].path = "/api/v1/events/batch"
                           /\ tracker'.callers[c].events_to_send = batch
                           /\ tracker'.callers[c].attempt = 0
                           /\ tracker'._event_batch = <<>>
           /\ (EndsSend(c) /\ tracker.callers[c].attempt = 0
                 /\ tracker'.callers[c].raised = NoError) =>
                  /\ tracker'.sent =
                         Append(tracker.sent,
                                [path |-> "/api/v1/events/batch",
                                 events |-> tracker.callers[c].events_to_send])
                  /\ tracker'._event_batch = <<>>
           /\ (tracker'.closed /\ ~tracker.closed) =>
                  tracker'._event_batch = <<>>]_vars

\* The third event was tracked alone after a full batch went out, and
\* close() has sent it.
C36_Witness ==
    /\ tracker.enable_batching
    /\ tracker.closed
    /\ tracker.sent = <<[path |-> "/api/v1/events/batch", events |-> <<1, 2>>],
                        [path |-> "/api/v1/events/batch", events |-> <<3>>]>>
    /\ tracker._event_batch = <<>>

\* C37: a send makes at most max_retries + 1 attempts: after a connection
\* or timeout error it sleeps retry_backoff * 2^attempt and tries again
\* while attempts are left, then raises ServiceUnavailableError; a response
\* ends the send at once, 200 by returning, 400 as ValidationError, 401 as
\* AuthenticationError, 429 as RateLimitError with the Retry-After header,
\* 500 and above as ServiceUnavailableError.
C37_SendAttempts ==
    [][\A c \in Callers :
         tracker.callers[c].pc = "send" /\ tracker'.callers[c] # tracker.callers[c] =>
           LET before == tracker.callers[c]
               after  == tracker'.callers[c]
           IN  /\ before.attempt <= max_retries
               /\ after.response.kind = "response" =>
                      /\ after.pc = "done"
                      /\ after.raised.error =
                             CASE after.response.status = 200 -> "none"
                               [] after.response.status = 400 -> "ValidationError"
                               [] after.response.status = 401 -> "AuthenticationError"
                               [] after.response.status = 429 -> "RateLimitError"
                               [] after.response.status >= 500 ->
                                      "ServiceUnavailableError"
                               [] OTHER -> after.raised.error
                      /\ after.raised.retry_after =
                             IF after.response.status = 429
                             THEN after.response.retry_after ELSE <<>>
               /\ after.response.kind # "response" =>
                      IF before.attempt < max_retries
                      THEN /\ after.pc = "send"
                           /\ after.attempt = before.attempt + 1
                           /\ after.slept =
                                  Append(before.slept,
                                         retry_backoff * 2^before.attempt)
                      ELSE /\ after.pc = "done"
                           /\ after.raised.error = "ServiceUnavailableError"]_vars

\* A send gave up after max_retries + 1 attempts that all ended in
\* connection or timeout errors, with the backoffs doubling.
C37_Witness ==
    \E c \in Callers :
        /\ tracker.callers[c].pc = "done"
        /\ tracker.callers[c].attempt = max_retries
        /\ tracker.callers[c].slept =
               [k \in 1..max_retries |-> retry_backoff * 2^(k - 1)]
        /\ tracker.callers[c].response.kind = "TimeoutException"
        /\ tracker.callers[c].raised.error = "ServiceUnavailableError"

\* Where a tracked event is: how often in the buffer, in the batches
\* answered 200, and in the hands of a caller inside the tracker.
InBuffer(e) == Count(tracker._event_batch, e)
InSent(e) ==
    Cardinality({<<k, i>> \in (DOMAIN tracker.sent) \X (1..MaxTracked) :
                    /\ i \in DOMAIN tracker.sent[k].events
                    /\ tracker.sent[k].events[i] = e})
InFlight(e) ==
    Cardinality({c \in Callers :
                    \/ tracker.callers[c].pc = "acquire"
                         /\ tracker.callers[c].op = "track"
                         /\ tracker.callers[c].event = e
                    \/ tracker.callers[c].pc = "send"
                         /\ \E i \in DOMAIN tracker.callers[c].events_to_send :
                                tracker.callers[c].events_to_send[i] = e})

\* C38: the batcher neither loses nor duplicates an event: when a flush
\* fails, every event of the failed batch is in the buffer again exactly
\* once, and however track and flush calls interleave, every tracked event
\* is in exactly one place: the buffer, one batch that was answered 200, or
\* (while a call is inside the tracker) the batch being sent.
C38_NoLossNoDuplicate ==
    [][tracker.enable_batching =>
         /\ \A e \in 1..tracker'.tracked :
                InBuffer(e)' + InSent(e)' + InFlight(e)' = 1
         /\ \A c \in Callers :
                (EndsSend(c) /\ tracker'.callers[c].raised # NoError) =>
                    \A i \in DOMAIN tracker.callers[c].events_to_send :
                        /\ InBuffer(tracker.callers[c].events_to_send[i])' = 1
                        /\ InSent(tracker.callers[c].events_to_send[i])' = 0]_vars

\* All three events were tracked and no call is in progress: the flush of
\* the first two failed after another caller's track had to wait for the
\* lock, and all three are still buffered, once each.
C38_Witness ==
    /\ tracker.enable_batching
    /\ tracker.tracked = MaxTracked
    /\ \A c \in Callers : tracker.callers[c].pc \in {"idle", "done"}
    /\ \E c \in Callers : tracker.callers[c].raised.error = "ServiceUnavailableError"
    /\ tracker.sent = <<>>
    /\ \A e \in 1..MaxTracked : InBuffer(e) = 1

(***************************************************************************)
(* Reads and roll-ups of one tenant over two histories of the events table *)
(***************************************************************************)
\* The rows of a tenant, in table order.
OfTenant(table, tenant_id) ==
    SelectSeq(table, LAMBDA row : row.tenant_id = tenant_id)

\* Completed events e1, e2 of any tenants, stored in this order.
IsolationEvents ==
    LET row(id) == {StoredRow(id, tenant_id, "u1", timestamp, "completed", 2) :
                       tenant_id \in Tenants, timestamp \in EventTimes}
    IN  {<<r>> : r \in row("e1")}
            \cup {<<r1, r2>> : r1 \in row("e1"), r2 \in row("e2")}

\* Two aggregation cycles over the table, the first when only the first
\* seen events were stored, and GET /api/v1/usage of tenant t1 after them.
History(events, seen, now1, now2, order) ==
    LET first == RunPasses(1, <<>>, SubSeq(events, 1, seen), now1, order,
                           <<"none", "none">>).table
        first_summaries ==
            _generate_billing_summaries(<<>>, SubSeq(events, 1, seen), now1,
                                        order, <<0, "none">>)
    IN  [aggregates |-> RunPasses(1, first, events, now2, order,
                                  <<"none", "none">>).table,
         summaries  |-> _generate_billing_summaries(first_summaries, events,
                                                    now2, order, <<0, "none">>),
         usage      |-> get_events_by_tenant(events, "t1", <<>>, <<>>, <<>>,
                                             <<>>, MaxLimit, 0)]

\* The same history without the events of the other tenants.
HistoryAlone(events, seen, now1, now2, order) ==
    LET alone == OfTenant(events, "t1")
    IN  History(alone, Len(OfTenant(SubSeq(events, 1, seen), "t1")), now1,
                now2, order)

IsolationInit ==
    /\ AtRest
    /\ validator_call = NoCall
    /\ pricing_call = NoCall
    /\ tier_call = NoCall
    /\ cost_call = NoCall
    /\ query_call = NoCall
    /\ trend_call = NoCall
    /\ running = [r \in Replicas |-> TRUE]
    /\ boundaries_call = NoCall
    /\ tracker = NoCall
    /\ \E events \in IsolationEvents, now1 \in 2..3, now2 \in 3..MaxClock,
          order \in TenantOrders :
         \E seen \in 0..Len(events) :
            isolation_call = [done |-> FALSE, events |-> events, seen |-> seen,
                              now1 |-> now1, now2 |-> now2, order |-> order]

RunHistories ==
    /\ ~isolation_call.done
    /\ isolation_call' =
           [isolation_call EXCEPT !.done = TRUE] @@
           [full  |-> History(isolation_call.events, isolation_call.seen,
                              isolation_call.now1, isolation_call.now2,
                              isolation_call.order),
            alone |-> HistoryAlone(isolation_call.events, isolation_call.seen,
                                   isolation_call.now1, isolation_call.now2,
                                   isolation_call.order)]
    /\ UNCHANGED <<usage_events, dead_letter_events, db_usage_events, billing_rule,
                   redis_up, store_up, proc, submitted, upsert_log, gateway_vars,
                   aggregation_vars,
                   validator_call, pricing_call, tier_call, cost_call, query_call,
                   trend_call, running, boundaries_call, tracker>>

IsolationSpec == IsolationInit /\ [][RunHistories]_vars

UsageIsolated ==
    isolation_call.done =>
        isolation_call.full.usage = isolation_call.alone.usage

SummariesIsolated ==
    isolation_call.done =>
        OfTenant(isolation_call.full.summaries, "t1")
            = OfTenant(isolation_call.alone.summaries, "t1")

AggregatesIsolated ==
    isolation_call.done =>
        OfTenant(isolation_call.full.aggregates, "t1")
            = OfTenant(isolation_call.alone.aggregates, "t1")

\* C39: what tenant t1 reads with GET /api/v1/usage and the aggregate and
\* billing summary rows of t1 depend on the events of t1 only: they are the
\* same with and without the events of the other tenants.
C39_TenantIsolation ==
    /\ UsageIsolated
    /\ SummariesIsolated
    /\ AggregatesIsolated

(***************************************************************************)
(* Draining the queue: one processor, every database and Redis call        *)
(* succeeding.                                                             *)
(***************************************************************************)
\* _get_event_batch with no Redis error between the pops.
DrainGetBatch(r) ==
    /\ GetBatch(r)
    /\ proc'[r].pc = "process"

\* The for loop of _process_event_batch with every database call answered.
DrainProcessBatch(r) ==
    /\ ProcessBatch(r)
    /\ proc'[r].successful_events =
           SuccessfulOf(proc[r].events, TRUE, TRUE, billing_rule)

\* _store_events and _handle_failed_events with the session opening and
\* every lpush succeeding: only the statement itself can raise.
DrainStore(r) ==
    /\ StoreAndHandleFailed(r)
    /\ LET events   == proc[r].successful_events
           failed   == proc[r].failed_events
           raises   == \E i \in 1..Len(events) : InsertRaises(events[i])
           requeued == IF raises
                       THEN _requeue_events(usage_events, events, TRUE)
                       ELSE usage_events
       IN  /\ usage_events' =
                  _requeue_events(requeued, RetryEvents(failed), TRUE)
           /\ dead_letter_events' =
                  _send_to_dead_letter_queue(dead_letter_events,
                                             DeadLetterEvents(failed), TRUE)

\* start(): "while self.running" takes a batch and handles it, again and
\* again.
ProcessingLoop ==
    \/ DrainGetBatch("p1")
    \/ DrainProcessBatch("p1")
    \/ DrainStore("p1")

DrainNext ==
    \/ \E s \in Submissions : Produce(s[1], s[2])
    \/ DrainGetBatch("p1")
    \/ DrainProcessBatch("p1")
    \/ DrainStore("p1")

\* The loop keeps running: a step of it that stays possible is taken.
DrainSpec == Init /\ [][DrainNext]_vars /\ WF_vars(ProcessingLoop)

====
